---- MODULE Spec2Model ----
(***************************************************************************)
(* Route optimization and dynamic dispatch engine of IntelliLog-AI.        *)
(*                                                                         *)
(* Two specifications share this module:                                   *)
(*   SpecOpt  one OptimizationService.calculate_routes call, stepped       *)
(*            through clustering, the per-batch solves and the return;     *)
(*   Spec     the stored routes/orders/drivers, the periodic reroute tick  *)
(*            and the manual reroute, each in its own database session.    *)
(*                                                                         *)
(* Geometry: every point of the model lies on one meridian, its latitude   *)
(* given in whole kilometres of arc, so that the great-circle distance of  *)
(* two points is exactly the absolute difference of their latitudes.       *)
(* Positions derived from a batch (centroids) are kept exact by carrying   *)
(* every position of a solve as a numerator over the batch length.         *)
(***************************************************************************)
EXTENDS Integers, Sequences, FiniteSets, TLC

(***************************************************************************)
(* Bounds of the model.                                                    *)
(***************************************************************************)
MaxOrders == 6

MaxDrivers == 2

(* None of an optional numeric field (Python None / SQL NULL). *)
None == -1

(***************************************************************************)
(* Generic helpers.                                                        *)
(***************************************************************************)
Max2(a, b) == IF a >= b THEN a ELSE b

Min2(a, b) == IF a <= b THEN a ELSE b

Abs(a) == IF a >= 0 THEN a ELSE -a

Range(s) == {s[i] : i \in DOMAIN s}

RECURSIVE SumSeq(_)
SumSeq(s) == IF s = <<>> THEN 0 ELSE Head(s) + SumSeq(Tail(s))

RECURSIVE Concat(_)
Concat(ss) == IF ss = <<>> THEN <<>> ELSE Head(ss) \o Concat(Tail(ss))

(* The elements of s at the positions satisfying keep, in order. *)
RECURSIVE SelectIdx(_, _, _)
SelectIdx(s, keep, i) ==
    IF i > Len(s) THEN <<>>
    ELSE (IF keep[i] THEN <<s[i]>> ELSE <<>>) \o SelectIdx(s, keep, i + 1)

(***************************************************************************)
(* GeoDistance: vrp_solver.haversine on the model's meridian.              *)
(***************************************************************************)
haversine(lat1, lat2) == Abs(lat2 - lat1)

build_distance_matrix(points) ==
    [i \in 1..Len(points) |-> [j \in 1..Len(points) |->
        IF i = j THEN 0 ELSE haversine(points[i], points[j])]]

(* Seconds from the scaled distance matrix: int(d / max(speed, 5) * 3600). *)
build_time_matrix(distance_matrix_km, avg_speed_kmph, scale) ==
    [i \in DOMAIN distance_matrix_km |-> [j \in DOMAIN distance_matrix_km[i] |->
        (distance_matrix_km[i][j] * 3600) \div (Max2(avg_speed_kmph, 5) * scale)]]

(***************************************************************************)
(* Batch frame of plan_routes: positions as numerators over the batch      *)
(* length n, so the mean latitude is SumSeq(lat) exactly.                  *)
(***************************************************************************)
Lats(orders) == [i \in 1..Len(orders) |-> orders[i].lat]

Centroid(orders) == SumSeq(Lats(orders))

ScaledLat(orders, lat) == lat * Len(orders)

(* df["distance_km"]: distance of each order to the depot, else to the     *)
(* mean position of the batch (vrp_solver.py 341-351).                     *)
DistanceKm(orders, depot_coords) ==
    LET ref == IF depot_coords # None THEN ScaledLat(orders, depot_coords)
               ELSE Centroid(orders)
    IN  [i \in 1..Len(orders) |-> haversine(ref, ScaledLat(orders, orders[i].lat))]

(***************************************************************************)
(* Delay predictor (ETAService.predict_eta) as plan_routes consumes it:    *)
(* the heuristic predictor answers twice the distance; a raising predictor *)
(* is replaced by zero delays; no predictor leaves preds at None, which    *)
(* greedy_vrp reads as zero delays.                                        *)
(***************************************************************************)
PredictorModes == {"fallback", "raise"}

(* A variant that keeps the heuristic's delays when the predictor raises. *)
PredsKeptOnFailure(orders, distance_km, use_ml_predictions, predictor) ==
    IF use_ml_predictions /\ predictor \in {"fallback", "raise"}
    THEN [i \in 1..Len(orders) |-> 2 * distance_km[i]]
    ELSE [i \in 1..Len(orders) |-> 0]

Preds(orders, distance_km, use_ml_predictions, predictor) ==
    IF use_ml_predictions /\ predictor = "fallback"
    THEN [i \in 1..Len(orders) |-> 2 * distance_km[i]]
    ELSE [i \in 1..Len(orders) |-> 0]

(***************************************************************************)
(* GreedyAssigner: vrp_solver.greedy_vrp.                                  *)
(***************************************************************************)
(* sort_values("priority", ascending=False): positions in descending       *)
(* priority, equal priorities in input order.                              *)
RECURSIVE InsertDesc(_, _, _)
InsertDesc(sorted, i, priority) ==
    IF sorted = <<>> THEN <<i>>
    ELSE IF priority[Head(sorted)] >= priority[i]
         THEN <<Head(sorted)>> \o InsertDesc(Tail(sorted), i, priority)
         ELSE <<i>> \o sorted

RECURSIVE SortDesc(_, _)
SortDesc(priority, k) ==
    IF k = 0 THEN <<>> ELSE InsertDesc(SortDesc(priority, k - 1), k, priority)

(* A variant that takes the last vehicle of lowest load. *)
LastBestDriver(drivers_state) ==
    CHOOSE b \in DOMAIN drivers_state :
        /\ \A d \in DOMAIN drivers_state : drivers_state[b].load <= drivers_state[d].load
        /\ \A d \in DOMAIN drivers_state :
              drivers_state[d].load = drivers_state[b].load => b >= d

(* min(drivers_state, key=load): the first vehicle of lowest load. *)
BestDriver(drivers_state) ==
    CHOOSE b \in DOMAIN drivers_state :
        /\ \A d \in DOMAIN drivers_state : drivers_state[b].load <= drivers_state[d].load
        /\ \A d \in DOMAIN drivers_state :
              drivers_state[d].load = drivers_state[b].load => b <= d

RECURSIVE GreedyLoop(_, _, _, _, _)
GreedyLoop(drivers_state, todo, orders, distance_km, pred_delay) ==
    IF todo = <<>> THEN drivers_state
    ELSE LET row  == Head(todo)
             best == BestDriver(drivers_state)
             est_cost == distance_km[row] + pred_delay[row]
         IN  GreedyLoop(
                 [drivers_state EXCEPT
                     ![best].route = Append(@, orders[row].order_id),
                     ![best].load  = @ + est_cost],
                 Tail(todo), orders, distance_km, pred_delay)

greedy_vrp(orders, distance_km, preds, drivers) ==
    LET priority == [i \in 1..Len(orders) |-> preds[i] + distance_km[i]]
        drivers_state == [i \in 1..drivers |->
                            [id |-> i - 1, route |-> <<>>, load |-> 0, duration_min |-> 0]]
    IN  GreedyLoop(drivers_state, SortDesc(priority, Len(orders)),
                   orders, distance_km, preds)

(***************************************************************************)
(* Constrained solver: vrp_solver.ortools_vrp.  The OR-Tools search is an  *)
(* external library; the model takes what the code posts to it (capacity   *)
(* dimension, time dimension with 300 s of waiting slack, one disjunction  *)
(* per non-depot node) and lets the search return any assignment that      *)
(* satisfies these constraints, no assignment at all (the code's           *)
(* "No solution found within time limit" branch), or raise.                *)
(***************************************************************************)
SolverBehaviours == {"solution", "nosolution", "raise"}

WaitingSlackSec == 300

DaySec == 86400

(* Nodes start, stops..., end of one vehicle. *)
RouteNodes(p, v, stops) == <<p.starts[v]>> \o stops \o <<p.ends[v]>>

TransitSec(p, a, b) == p.time_matrix_sec[a][b] + p.service_times_min[a] * 60

MaxTimeSec(p) ==
    LET ends == {p.time_windows[i][2] * 60 : i \in DOMAIN p.time_windows} \cup {DaySec}
    IN  CHOOSE m \in ends : \A e \in ends : e <= m

(* The time dimension along nodes[k..]: the cumul variable of nodes[k]     *)
(* ranges over lo..hi; each arc adds its transit and 0..300 s of slack.    *)
RECURSIVE TimeFeasible(_, _, _, _, _, _)
TimeFeasible(p, nodes, k, lo, hi, max_time_sec) ==
    IF lo > hi THEN FALSE
    ELSE IF k = Len(nodes) THEN TRUE
    ELSE LET t  == TransitSec(p, nodes[k], nodes[k + 1])
             tw == p.time_windows[nodes[k + 1]]
         IN  TimeFeasible(p, nodes, k + 1,
                 Max2(lo + t, tw[1] * 60),
                 Min2(Min2(hi + t + WaitingSlackSec, tw[2] * 60), max_time_sec),
                 max_time_sec)

RouteTimeFeasible(p, nodes) ==
    LET tw == p.time_windows[nodes[1]]
        max_time_sec == MaxTimeSec(p)
    IN  TimeFeasible(p, nodes, 1, tw[1] * 60, Min2(tw[2] * 60, max_time_sec),
                     max_time_sec)

(* Stop sequences that extend prefix within the remaining capacity. *)
RECURSIVE RouteExtensions(_, _, _, _)
RouteExtensions(p, prefix, remaining, free) ==
    {prefix} \cup UNION {
        RouteExtensions(p, Append(prefix, x), remaining \ {x}, free - p.demands[x]) :
            x \in {y \in remaining : p.demands[y] <= free} }

FeasibleRoutes(p, v, remaining) ==
    {stops \in RouteExtensions(p, <<>>, remaining, p.capacities[v]) :
        RouteTimeFeasible(p, RouteNodes(p, v, stops))}

(* One stop sequence per vehicle v..num_vehicles, pairwise disjoint. *)
RECURSIVE Assignments(_, _, _)
Assignments(p, v, remaining) ==
    IF v > p.num_vehicles THEN {<<>>}
    ELSE UNION { { <<stops>> \o rest :
                     rest \in Assignments(p, v + 1, remaining \ Range(stops)) } :
                 stops \in FeasibleRoutes(p, v, remaining) }

RECURSIVE PathSum(_, _, _)
PathSum(cost, nodes, k) ==
    IF k >= Len(nodes) THEN 0
    ELSE cost[nodes[k]][nodes[k + 1]] + PathSum(cost, nodes, k + 1)

RECURSIVE ServiceSum(_, _, _)
ServiceSum(p, nodes, k) ==
    IF k >= Len(nodes) THEN 0
    ELSE p.service_times_min[nodes[k]] * 60 + ServiceSum(p, nodes, k + 1)

SolverRaised == [raised |-> TRUE, routes |-> <<>>, route_dist_km |-> <<>>,
                 route_dur_min |-> <<>>, unassigned |-> <<>>]

(* Nodes in ascending order: the order of the unassigned scan. *)
RECURSIVE AscendingSeq(_)
AscendingSeq(S) ==
    IF S = {} THEN <<>>
    ELSE LET m == CHOOSE x \in S : \A y \in S : x <= y
         IN  <<m>> \o AscendingSeq(S \ {m})

SolutionOf(p, assignment) ==
    LET n_nodes == Len(p.distance_matrix_km)
        depots  == Range(p.starts) \cup Range(p.ends)
        routes  == [v \in 1..p.num_vehicles |-> RouteNodes(p, v, assignment[v])]
        visited == UNION {Range(assignment[v]) : v \in 1..p.num_vehicles}
    IN  [raised |-> FALSE,
         routes |-> routes,
         route_dist_km |-> [v \in 1..p.num_vehicles |->
                               PathSum(p.distance_matrix_km, routes[v], 1)],
         route_dur_min |-> [v \in 1..p.num_vehicles |->
                               (PathSum(p.time_matrix_sec, routes[v], 1)
                                 + ServiceSum(p, routes[v], 1)) \div 60],
         unassigned |-> AscendingSeq(((1..n_nodes) \ depots) \ visited)]

(* The length checks of ortools_vrp that raise ValueError. *)
InputsRejected(p) ==
    LET n_nodes == Len(p.distance_matrix_km)
    IN  \/ Len(p.service_times_min) # n_nodes
        \/ Len(p.starts) # p.num_vehicles
        \/ Len(p.ends) # p.num_vehicles
        \/ Len(p.demands) # n_nodes
        \/ Len(p.capacities) # p.num_vehicles
        \/ Len(p.time_windows) # n_nodes

(* The possible returns of ortools_vrp on problem p. *)
ortools_vrp(p, available, behaviour) ==
    LET n_nodes == Len(p.distance_matrix_km)
        depots  == Range(p.starts) \cup Range(p.ends)
    IN  IF ~available \/ InputsRejected(p) \/ behaviour = "raise" THEN {SolverRaised}
        ELSE IF behaviour = "nosolution"
             THEN {[raised |-> FALSE, routes |-> <<>>, route_dist_km |-> <<>>,
                    route_dur_min |-> <<>>, unassigned |-> <<>>]}
        ELSE {SolutionOf(p, a) : a \in Assignments(p, 1, (1..n_nodes) \ depots)}

(***************************************************************************)
(* Main planner: vrp_solver.plan_routes.                                   *)
(* An order is [order_id, lat, weight, time_window_start, time_window_end] *)
(* with weight in half units (so that rounding is visible) and the window  *)
(* bounds in minutes since the start of the day, None when absent.  A      *)
(* driver payload is [driver_id, current_lat, vehicle_capacity].           *)
(***************************************************************************)
NoMatrix == <<>>

ServiceTimeMinDefault == 5

DefaultCapacity == 10

DayMin == 1440

(* Python round() of weight/2: halves go to the even neighbour. *)
RoundHalfEven(h) ==
    LET q == h \div 2
    IN  IF h % 2 = 0 THEN q ELSE IF q % 2 = 0 THEN q ELSE q + 1

Demand(weight) == Max2(1, RoundHalfEven(weight))

Capacity(vehicle_capacity) == Max2(vehicle_capacity, 1)

TimeWindow(start_dt, end_dt) ==
    LET start_min == IF start_dt # None /\ end_dt # None THEN Max2(0, start_dt) ELSE 0
        end_min   == IF start_dt # None /\ end_dt # None THEN end_dt ELSE DayMin
    IN  <<start_min, Max2(start_min + 1, end_min)>>

(* Depot node(s) of the solver graph (vrp_solver.py 392-410), scaled. *)
DepotPoints(orders, drivers_payload, depot_coords) ==
    IF depot_coords # None THEN <<ScaledLat(orders, depot_coords)>>
    ELSE IF drivers_payload # <<>>
    THEN [i \in 1..Len(drivers_payload) |->
            IF drivers_payload[i].current_lat = None THEN Centroid(orders)
            ELSE ScaledLat(orders, drivers_payload[i].current_lat)]
    ELSE <<Centroid(orders)>>

OrderPoints(orders) == [i \in 1..Len(orders) |-> ScaledLat(orders, orders[i].lat)]

(* The arguments plan_routes hands to ortools_vrp (vrp_solver.py 389-503). *)
SolverProblem(a) ==
    LET drivers_payload == a.drivers_data
        depot_points == DepotPoints(a.orders, drivers_payload, a.depot_coords)
        depot_count  == Len(depot_points)
        num_vehicles == IF drivers_payload # <<>> THEN Len(drivers_payload)
                        ELSE Max2(a.drivers, 1)
        points == depot_points \o OrderPoints(a.orders)
        distance_matrix == IF a.distance_matrix_km = NoMatrix
                           THEN build_distance_matrix(points)
                           ELSE a.distance_matrix_km
        per_driver == a.depot_coords = None /\ drivers_payload # <<>>
    IN  [distance_matrix_km |-> distance_matrix,
         time_matrix_sec |-> IF a.time_matrix_sec = NoMatrix
                             THEN build_time_matrix(distance_matrix, a.avg_speed_kmph,
                                                    Len(a.orders))
                             ELSE a.time_matrix_sec,
         num_vehicles |-> num_vehicles,
         starts |-> IF per_driver THEN [i \in 1..depot_count |-> i]
                    ELSE [i \in 1..num_vehicles |-> 1],
         ends   |-> IF per_driver THEN [i \in 1..depot_count |-> i]
                    ELSE [i \in 1..num_vehicles |-> 1],
         capacities |-> IF drivers_payload # <<>>
                        THEN [i \in 1..Len(drivers_payload) |->
                                 Capacity(drivers_payload[i].vehicle_capacity)]
                        ELSE [i \in 1..num_vehicles |-> DefaultCapacity],
         demands |-> [i \in 1..depot_count |-> 0]
                     \o [i \in 1..Len(a.orders) |-> Demand(a.orders[i].weight)],
         service_times_min |-> [i \in 1..depot_count |-> 0]
                     \o [i \in 1..Len(a.orders) |-> ServiceTimeMinDefault],
         time_windows |-> [i \in 1..depot_count |-> TimeWindow(None, None)]
                     \o [i \in 1..Len(a.orders) |->
                            TimeWindow(a.orders[i].time_window_start,
                                       a.orders[i].time_window_end)],
         depot_count |-> depot_count]

(* Solver node indices back to order ids, depot nodes skipped. *)
RECURSIVE OrderIds(_, _, _)
OrderIds(orders, depot_count, nodes) ==
    IF nodes = <<>> THEN <<>>
    ELSE (IF Head(nodes) > depot_count /\ Head(nodes) - depot_count <= Len(orders)
          THEN <<orders[Head(nodes) - depot_count].order_id>> ELSE <<>>)
         \o OrderIds(orders, depot_count, Tail(nodes))

GreedyResult(a, preds, method) ==
    [error |-> FALSE,
     routes |-> greedy_vrp(a.orders, DistanceKm(a.orders, a.depot_coords), preds, a.drivers),
     method |-> method,
     n_orders |-> Len(a.orders),
     unassigned |-> <<>>,
     has_unassigned |-> FALSE]

SolvedResult(a, p, r) ==
    [error |-> FALSE,
     routes |-> [i \in 1..Len(r.routes) |->
                    [id |-> i - 1,
                     route |-> OrderIds(a.orders, p.depot_count, r.routes[i]),
                     load |-> IF i <= Len(r.route_dist_km) THEN r.route_dist_km[i] ELSE 0,
                     duration_min |-> IF i <= Len(r.route_dur_min)
                                      THEN r.route_dur_min[i] ELSE 0]],
     method |-> "ortools",
     n_orders |-> Len(a.orders),
     unassigned |-> OrderIds(a.orders, p.depot_count, r.unassigned),
     has_unassigned |-> TRUE]

(* The possible returns of plan_routes; a is the argument record, env the  *)
(* collaborators' behaviour during the call.                               *)
plan_routes(a, env) ==
    IF a.orders = <<>>
    THEN {[error |-> FALSE, routes |-> <<>>, method |-> a.method, n_orders |-> 0,
           unassigned |-> <<>>, has_unassigned |-> FALSE]}
    ELSE LET preds == Preds(a.orders, DistanceKm(a.orders, a.depot_coords),
                            a.use_ml_predictions, env.predictor)
         IN  IF a.method = "greedy" THEN {GreedyResult(a, preds, "greedy")}
             ELSE IF ~env.ortools_available
                  THEN {GreedyResult(a, preds, "greedy_fallback")}
             ELSE LET p == SolverProblem(a)
                  IN  { IF r.raised THEN GreedyResult(a, preds, "greedy_fallback")
                        ELSE SolvedResult(a, p, r) :
                        r \in ortools_vrp(p, env.ortools_available, env.solver) }

(***************************************************************************)
(* GeoClusterer: clustering_service.cluster_orders.  DBSCAN (scikit-learn) *)
(* with the haversine metric is computed on the meridian: a point is a     *)
(* core point when at least min_samples points (itself included) lie       *)
(* within eps_km; clusters are the chains of core points, numbered in the  *)
(* order of their first core point; a border point joins the first         *)
(* numbered cluster that reaches it; every other point is noise (-1).      *)
(***************************************************************************)
NoiseLabel == -1

Neighbours(orders, i, eps_km) ==
    {j \in 1..Len(orders) : haversine(orders[i].lat, orders[j].lat) <= eps_km}

CorePoints(orders, eps_km, min_samples) ==
    {i \in 1..Len(orders) : Cardinality(Neighbours(orders, i, eps_km)) >= min_samples}

RECURSIVE CoreChain(_, _, _, _)
CoreChain(orders, eps_km, core, S) ==
    LET T == S \cup {j \in core : \E i \in S : j \in Neighbours(orders, i, eps_km)}
    IN  IF T = S THEN S ELSE CoreChain(orders, eps_km, core, T)

MinOf(S) == CHOOSE x \in S : \A y \in S : x <= y

DBSCANLabels(orders, eps_km, min_samples) ==
    LET core == CorePoints(orders, eps_km, min_samples)
        first(c) == MinOf(CoreChain(orders, eps_km, core, {c}))
        label(c) == Cardinality({first(d) : d \in {e \in core : first(e) < first(c)}})
    IN  [i \in 1..Len(orders) |->
            IF i \in core THEN label(i)
            ELSE LET near == Neighbours(orders, i, eps_km) \cap core
                 IN  IF near = {} THEN NoiseLabel
                     ELSE MinOf({label(c) : c \in near})]

(* clusters.setdefault(label, []).append(order): the clusters in the order *)
(* their labels first appear, as a sequence of [cid, orders].              *)
RECURSIVE GroupByLabel(_, _, _, _)
GroupByLabel(orders, labels, i, clusters) ==
    IF i > Len(orders) THEN clusters
    ELSE LET at == {k \in DOMAIN clusters : clusters[k].cid = labels[i]}
         IN  GroupByLabel(orders, labels, i + 1,
                 IF at = {}
                 THEN Append(clusters, [cid |-> labels[i], orders |-> <<orders[i]>>])
                 ELSE [clusters EXCEPT ![MinOf(at)].orders = Append(@, orders[i])])

(* min(cluster_centroids, key=distance to centroid): the first cluster of  *)
(* least distance; the centroid of c is sum/len, compared cross-multiplied.*)
NearestCluster(o, centroids) ==
    LET num(k) == Abs(o.lat * centroids[k].len - centroids[k].sum)
        le(k, m) == num(k) * centroids[m].len <= num(m) * centroids[k].len
    IN  CHOOSE b \in DOMAIN centroids :
            /\ \A m \in DOMAIN centroids : le(b, m)
            /\ \A m \in DOMAIN centroids : (le(m, b) /\ le(b, m)) => b <= m

RECURSIVE MergeNoise(_, _, _)
MergeNoise(clusters, noise_orders, centroids) ==
    IF noise_orders = <<>> THEN clusters
    ELSE LET best == NearestCluster(Head(noise_orders), centroids)
         IN  MergeNoise([clusters EXCEPT ![best].orders = Append(@, Head(noise_orders))],
                        Tail(noise_orders), centroids)

cluster_orders(orders, eps_km, min_samples, sklearn_available) ==
    IF ~sklearn_available \/ Len(orders) < min_samples
    THEN <<[cid |-> 0, orders |-> orders]>>
    ELSE LET labels   == DBSCANLabels(orders, eps_km, min_samples)
             clusters == GroupByLabel(orders, labels, 1, <<>>)
             n_clusters == Cardinality(Range(labels) \ {NoiseLabel})
             noise_at == {k \in DOMAIN clusters : clusters[k].cid = NoiseLabel}
         IN  IF noise_at # {} /\ n_clusters > 0
             THEN LET kept == SelectIdx(clusters,
                                  [k \in DOMAIN clusters |-> clusters[k].cid # NoiseLabel], 1)
                      centroids == [k \in DOMAIN kept |->
                                       [sum |-> SumSeq(Lats(kept[k].orders)),
                                        len |-> Len(kept[k].orders)]]
                  IN  MergeNoise(kept, clusters[MinOf(noise_at)].orders, centroids)
             ELSE clusters

(***************************************************************************)
(* MatrixProvider: routing_service.RoutingService.get_osrm_table and       *)
(* OptimizationService._build_points.                                      *)
(***************************************************************************)
OsrmOutcomes == {"ok", "timeout", "non200", "malformed"}

(* Road distance over geometric distance in the OSRM answers of the model. *)
RoadDetour == 2

RoadSpeedKmph == 30

RECURSIVE KnownDriverPoints(_, _)
KnownDriverPoints(orders, drivers_data) ==
    IF drivers_data = <<>> THEN <<>>
    ELSE (IF Head(drivers_data).current_lat = None THEN <<>>
          ELSE <<ScaledLat(orders, Head(drivers_data).current_lat)>>)
         \o KnownDriverPoints(orders, Tail(drivers_data))

_build_points(orders, drivers_data, warehouse_coords) ==
    LET depots == IF warehouse_coords # None THEN <<ScaledLat(orders, warehouse_coords)>>
                  ELSE KnownDriverPoints(orders, drivers_data)
        points == IF depots = <<>> /\ orders # <<>> THEN <<Centroid(orders)>> ELSE depots
    IN  points \o OrderPoints(orders)

OsrmRaised == [raised |-> TRUE, distances_km |-> NoMatrix, durations_sec |-> NoMatrix]

get_osrm_table(points, scale, max_points, outcome) ==
    IF points = <<>>
    THEN [raised |-> FALSE, distances_km |-> <<<<>>>>, durations_sec |-> <<<<>>>>]
    ELSE IF Len(points) > max_points THEN OsrmRaised
    ELSE IF outcome # "ok" THEN OsrmRaised
    ELSE LET distances_km == [i \in 1..Len(points) |-> [j \in 1..Len(points) |->
                                 RoadDetour * haversine(points[i], points[j])]]
         IN  [raised |-> FALSE,
              distances_km |-> distances_km,
              durations_sec |-> build_time_matrix(distances_km, RoadSpeedKmph,
                                                  Max2(scale, 1))]

(***************************************************************************)
(* RouteOptimizer: OptimizationService._solve_single.  b is the batch      *)
(* request, env the collaborators' behaviour during this solve.            *)
(***************************************************************************)
ErrorResult == [error |-> TRUE, routes |-> <<>>, method |-> "error", n_orders |-> 0,
                unassigned |-> <<>>, has_unassigned |-> FALSE]

(* The matrix provider call of a solve, None when it is not made. *)
OsrmCall(b, cfg, env) ==
    IF b.method = "ortools" /\ b.use_osrm
    THEN get_osrm_table(_build_points(b.orders, b.drivers_data, b.warehouse_coords),
                        Len(b.orders), cfg.OSRM_MAX_POINTS, env.osrm)
    ELSE [raised |-> FALSE, distances_km |-> NoMatrix, durations_sec |-> NoMatrix]

(* A variant that recovers from the provider's failure whatever the flag. *)
OsrmAlwaysRecovered(cfg) == TRUE

(* Whether the provider's failure is recovered by the geometric fallback. *)
OsrmRecovered(cfg) == cfg.OSRM_FALLBACK_HAVERSINE

(* A variant that degrades to the greedy heuristic when the provider fails. *)
PlanArgsGreedyOnFailure(b, table) ==
    [orders |-> b.orders, drivers |-> b.drivers,
     method |-> IF table.raised THEN "greedy" ELSE b.method,
     use_ml_predictions |-> b.use_ml, drivers_data |-> b.drivers_data,
     avg_speed_kmph |-> b.avg_speed_kmph,
     distance_matrix_km |-> IF table.raised THEN NoMatrix ELSE table.distances_km,
     time_matrix_sec |-> IF table.raised THEN NoMatrix ELSE table.durations_sec,
     depot_coords |-> b.warehouse_coords]

(* The plan_routes call of _solve_single (lines 146-158). *)
PlanArgs(b, table) ==
    [orders |-> b.orders, drivers |-> b.drivers, method |-> b.method,
     use_ml_predictions |-> b.use_ml, drivers_data |-> b.drivers_data,
     avg_speed_kmph |-> b.avg_speed_kmph,
     distance_matrix_km |-> IF table.raised THEN NoMatrix ELSE table.distances_km,
     time_matrix_sec |-> IF table.raised THEN NoMatrix ELSE table.durations_sec,
     depot_coords |-> b.warehouse_coords]

_solve_single(b, cfg, env) ==
    LET table == OsrmCall(b, cfg, env)
    IN  IF table.raised /\ ~OsrmRecovered(cfg) THEN {ErrorResult}
        ELSE plan_routes(PlanArgs(b, table), env)

(* What the solve saw of the constrained solver: "unused" when the solve   *)
(* never reached it, "unavailable" when the library is missing, else the   *)
(* outcome of the ortools_vrp call.                                        *)
SolverOutcome(b, cfg, env) ==
    LET table == OsrmCall(b, cfg, env)
    IN  IF b.method # "ortools" \/ b.orders = <<>> THEN "unused"
        ELSE IF table.raised /\ ~OsrmRecovered(cfg) THEN "unused"
        ELSE IF ~env.ortools_available THEN "unavailable"
        ELSE IF InputsRejected(SolverProblem(PlanArgs(b, table))) THEN "raise"
        ELSE env.solver

(***************************************************************************)
(* Requests of the model.                                                  *)
(***************************************************************************)
(* len(orders) > 50 in optimization_service.py line 87; the model scales   *)
(* the activation threshold down so that clustered batches stay within     *)
(* MaxOrders.  eps_km and min_samples are those of the call on line 88.    *)
ClusterThreshold == 5

ClusterEpsKm == 2

ClusterMinSamples == 3

(* Batches of up to MaxSmallOrders orders take every combination of the    *)
(* order kinds below; longer batches follow a layout.                      *)
MaxSmallOrders == 2

NoWindow == <<None, None>>

TightWindow == <<0, 10>>

Order(id, lat, weight, tw) ==
    [order_id |-> id, lat |-> lat, weight |-> weight,
     time_window_start |-> tw[1], time_window_end |-> tw[2]]

(* <<lat, weight, window>> *)
OrderKinds ==
    { <<10, 2, NoWindow>>, <<20, 3, NoWindow>>, <<20, 2, TightWindow>>,
      <<10, 3, TightWindow>> }

SmallBatches ==
    UNION { { [i \in 1..n |-> Order(i, kind[i][1], kind[i][2], kind[i][3])] :
                kind \in [1..n -> OrderKinds] } : n \in 0..MaxSmallOrders }

Layouts == {"near", "split", "noise"}

LayoutLat(layout, i, n) ==
    IF layout = "near" THEN 10 + (i % 2)
    ELSE IF layout = "noise" /\ i = n THEN 15
    ELSE IF 2 * i <= n THEN 10 + (i % 2) ELSE 20 + (i % 2)

LayoutBatches ==
    { [i \in 1..n |-> Order(i, LayoutLat(layout, i, n),
                             IF mixed /\ i % 3 = 0 THEN 3 ELSE 2,
                             IF mixed /\ i = 1 THEN TightWindow ELSE NoWindow)] :
        n \in ClusterThreshold..MaxOrders, layout \in Layouts, mixed \in BOOLEAN }

Driver(id, lat, cap) == [driver_id |-> id, current_lat |-> lat, vehicle_capacity |-> cap]

DriverPools ==
    { pool \in { <<>>, <<Driver(1, 10, 2)>>, <<Driver(1, 10, 1), Driver(2, None, 1)>> } :
        Len(pool) <= MaxDrivers }

Requests ==
    { [orders |-> orders, drivers |-> IF pool = <<>> THEN 1 ELSE Len(pool),
       method |-> method, use_ml |-> TRUE, drivers_data |-> pool,
       avg_speed_kmph |-> 30, use_osrm |-> use_osrm,
       warehouse_coords |-> wh, enable_clustering |-> TRUE] :
        orders \in SmallBatches \cup LayoutBatches, pool \in DriverPools,
        method \in {"greedy", "ortools"}, use_osrm \in BOOLEAN, wh \in {None, 12} }

(* The default-capacity pool (capacity 10) is paired with small batches. *)
ModelRequests ==
    { r \in Requests :
        /\ r.drivers_data = <<>> => Len(r.orders) <= MaxSmallOrders
        /\ r.method = "greedy" => ~r.use_osrm }

Configs ==
    [OSRM_FALLBACK_HAVERSINE : BOOLEAN, OSRM_MAX_POINTS : {4},
     sklearn_available : BOOLEAN, ortools_available : BOOLEAN,
     predictor : PredictorModes]

Envs(cfg) ==
    [osrm : OsrmOutcomes, solver : SolverBehaviours, predictor : {cfg.predictor},
     ortools_available : {cfg.ortools_available}]

NoResult == [error |-> FALSE, routes |-> <<>>, method |-> "none", n_orders |-> 0,
             unassigned |-> <<>>, has_unassigned |-> FALSE]

(***************************************************************************)
(* RouteOptimizer: OptimizationService.calculate_routes.                   *)
(***************************************************************************)
(* calculate_routes lines 86-114: the choice between the clustered loop    *)
(* and the single solve.                                                   *)
Precluster(r, sklearn_available) ==
    IF r.enable_clustering /\ Len(r.orders) > ClusterThreshold /\ r.method = "ortools"
    THEN cluster_orders(r.orders, ClusterEpsKm, ClusterMinSamples, sklearn_available)
    ELSE <<>>

ClusteredResult(r, subs) ==
    [error |-> FALSE,
     routes |-> Concat([k \in DOMAIN subs |-> subs[k].result.routes]),
     method |-> "ortools+clustered",
     n_orders |-> Len(r.orders),
     unassigned |-> Concat([k \in DOMAIN subs |-> subs[k].result.unassigned]),
     has_unassigned |-> TRUE]

(* The solves of a list of batches, one after the other; the first solve  *)
(* that raises ends the list.                                              *)
RECURSIVE SolveAll(_, _, _)
SolveAll(r, cfg, todo) ==
    IF todo = <<>> THEN {<<>>}
    ELSE UNION { UNION { IF x.error THEN {<<[result |-> x]>>}
                         ELSE { <<[result |-> x]>> \o rest :
                                  rest \in SolveAll(r, cfg, Tail(todo)) } :
                         x \in _solve_single([r EXCEPT !.orders = Head(todo)], cfg, env) } :
                 env \in Envs(cfg) }

(* The possible returns of one calculate_routes call; ErrorResult stands   *)
(* for the exception the call propagates.                                  *)
calculate_routes(r, cfg) ==
    LET clusters == Precluster(r, cfg.sklearn_available)
    IN  IF Len(clusters) > 1
        THEN { IF \E k \in DOMAIN subs : subs[k].result.error THEN ErrorResult
               ELSE ClusteredResult(r, subs) :
               subs \in SolveAll(r, cfg, [k \in DOMAIN clusters |-> clusters[k].orders]) }
        ELSE UNION { _solve_single(r, cfg, env) : env \in Envs(cfg) }

(***************************************************************************)
(* State of one calculate_routes call.                                     *)
(***************************************************************************)
VARIABLES
    req,        \* the arguments of the call
    cfg,        \* settings, library availability, predictor behaviour
    opc,        \* "received", "solving", "assemble", "returned", "raised"
    batches,    \* the batches still to be solved, each a list of orders
    clustered,  \* whether the call took the pre-clustering branch
    solves,     \* the solves made so far: [orders, osrm_raised, solver, result]
    result      \* the value returned by the call

(***************************************************************************)
(* Stored state and the sessions working on it.                            *)
(***************************************************************************)
VARIABLES
    db_routes,    \* committed Route rows, by route id
    db_orders,    \* committed Order rows: [status, route_id], by order id
    db_drivers,   \* committed Driver rows, by driver id
    live,         \* LiveLocationStore: tenant -> driver -> position
    sess,         \* the scheduler's and the request handler's session
    ticks,        \* scheduler ticks started
    manuals      \* manual reroutes started

(***************************************************************************)
(* LiveLocationStore as an object shared by threads.                       *)
(***************************************************************************)
VARIABLES
    _locations,   \* the store's dict: tenant -> driver -> reference to an entry
    heap,         \* the entry dicts ever built, by reference
    _lock,        \* the thread inside "with self._lock", if any
    threads,      \* each thread's call in progress
    returned,     \* the snapshots returned so far
    history       \* the update calls whose body has run, in order

(***************************************************************************)
(* The periodic reroute loop (reroute_service.reroute_scheduler).          *)
(***************************************************************************)
VARIABLES
    sched         \* the loop task: its position, the ticks started, what it logged

(***************************************************************************)
(* The live tracking simulator (src/api/live_tracking.py): module state    *)
(* shared by the worker threads that serve its endpoints.                  *)
(***************************************************************************)
VARIABLES
    SIM_LOCK,        \* the thread holding the threading.Lock, if any
    driver_routes,   \* driver id -> number of waypoints of its route
    driver_progress, \* driver id -> progress along the route, in steps
    driver_history,  \* driver id -> the records appended so far
    workers,         \* each worker thread's call stack and arguments
    responses        \* the responses sent so far

optVars == <<req, opc, batches, clustered, solves, result>>

simVars == <<SIM_LOCK, driver_routes, driver_progress, driver_history, workers, responses>>

extraVars == <<sched, simVars>>

storeVars == <<_locations, heap, _lock, threads, returned, history>>

dbVars == <<db_routes, db_orders, db_drivers, live, sess, ticks, manuals>>

vars == <<req, cfg, opc, batches, clustered, solves, result,
          db_routes, db_orders, db_drivers, live, sess, ticks, manuals,
          _locations, heap, _lock, threads, returned, history,
          sched, SIM_LOCK, driver_routes, driver_progress, driver_history,
          workers, responses>>

NoThread == "none"

(* The reroute loop, and the simulator, while they are not observed. *)
LoopUnused == sched = <<>>

SimUnused ==
    /\ SIM_LOCK = NoThread
    /\ driver_routes = <<>>
    /\ driver_progress = <<>>
    /\ driver_history = <<>>
    /\ workers = <<>>
    /\ responses = <<>>

ExtraUnused == LoopUnused /\ SimUnused

(* The shared store object while it is not observed. *)
StoreUnused ==
    /\ _locations = <<>>
    /\ heap = <<>>
    /\ _lock = NoThread
    /\ threads = <<>>
    /\ returned = <<>>
    /\ history = <<>>

(* The stored state while only a calculate_routes call is observed. *)
DbUnused ==
    /\ db_routes = <<>>
    /\ db_orders = <<>>
    /\ db_drivers = <<>>
    /\ live = <<>>
    /\ sess = <<>>
    /\ ticks = 0
    /\ manuals = 0

InitOpt ==
    /\ ExtraUnused
    /\ req \in ModelRequests
    /\ cfg \in Configs
    /\ opc = "received"
    /\ batches = <<>>
    /\ clustered = FALSE
    /\ solves = <<>>
    /\ result = NoResult
    /\ DbUnused
    /\ StoreUnused

CalculateRoutes ==
    /\ opc = "received"
    /\ LET clusters == Precluster(req, cfg.sklearn_available)
       IN  IF Len(clusters) > 1
           THEN /\ batches' = [k \in DOMAIN clusters |-> clusters[k].orders]
                /\ clustered' = TRUE
           ELSE /\ batches' = <<req.orders>>
                /\ clustered' = FALSE
    /\ opc' = "solving"
    /\ UNCHANGED <<req, cfg, solves, result>>
    /\ UNCHANGED <<dbVars, storeVars, extraVars>>

(* One _solve_single call, for the whole batch or for the next cluster. *)
SolveSingle ==
    /\ opc = "solving"
    /\ batches # <<>>
    /\ \E env \in Envs(cfg) :
         LET b == [req EXCEPT !.orders = Head(batches)]
             osrm_raised == OsrmCall(b, cfg, env).raised
             solver == SolverOutcome(b, cfg, env)
         IN  \E r \in _solve_single(b, cfg, env) :
               /\ solves' = Append(solves,
                      [orders |-> Head(batches), osrm_raised |-> osrm_raised,
                       solver |-> solver, result |-> r])
               /\ IF r.error
                  THEN /\ opc' = "raised"
                       /\ batches' = <<>>
                       /\ result' = ErrorResult
                  ELSE /\ opc' = IF Tail(batches) = <<>> THEN "assemble" ELSE "solving"
                       /\ batches' = Tail(batches)
                       /\ result' = result
    /\ UNCHANGED <<req, cfg, clustered>>
    /\ UNCHANGED <<dbVars, storeVars, extraVars>>

Return ==
    /\ opc = "assemble"
    /\ result' = IF clustered THEN ClusteredResult(req, solves) ELSE solves[1].result
    /\ opc' = "returned"
    /\ UNCHANGED <<req, cfg, batches, clustered, solves>>
    /\ UNCHANGED <<dbVars, storeVars, extraVars>>

NextOpt == CalculateRoutes \/ SolveSingle \/ Return

SpecOpt == InitOpt /\ [][NextOpt]_vars

(***************************************************************************)
(* Stored data of the model: two depots of tenant "default", one depot of  *)
(* a second tenant, one driver per depot, and up to five orders.           *)
(***************************************************************************)
MaxTicks == 1

MaxManuals == 1

NoWarehouse == "none"

NoRoute == <<>>

TenantIds == {"default", "t2"}

WarehouseIds == {"w1", "w2", "w3"}

Warehouse(w) ==
    IF w = "w3" THEN [tenant_id |-> "t2", lat |-> 12]
    ELSE [tenant_id |-> "default", lat |-> 12]

DriverIds == 1..3

(* Driver rows as seeded, one vehicle per depot; the second tenant's       *)
(* driver is offline.                                                      *)
SeedDriver(d) ==
    IF d = 1 THEN [tenant_id |-> "default", warehouse_id |-> "w1", status |-> "available",
                   current_lat |-> 10, vehicle_capacity |-> 1]
    ELSE IF d = 2 THEN [tenant_id |-> "default", warehouse_id |-> "w2",
                        status |-> "available", current_lat |-> 10, vehicle_capacity |-> 2]
    ELSE [tenant_id |-> "t2", warehouse_id |-> "w3", status |-> "offline",
          current_lat |-> None, vehicle_capacity |-> 1]

StoredOrderIds == 1..5

(* The columns of an order that no operation of the model writes. *)
OrderCols(o) ==
    IF o = 1 THEN [tenant_id |-> "default", warehouse_id |-> "w1", lat |-> 10,
                   weight |-> 3, window |-> NoWindow]
    ELSE IF o = 2 THEN [tenant_id |-> "default", warehouse_id |-> "w1", lat |-> 11,
                        weight |-> 2, window |-> NoWindow]
    ELSE IF o = 3 THEN [tenant_id |-> "default", warehouse_id |-> "w2", lat |-> 10,
                        weight |-> 2, window |-> NoWindow]
    ELSE IF o = 4 THEN [tenant_id |-> "t2", warehouse_id |-> "w3", lat |-> 20,
                        weight |-> 2, window |-> NoWindow]
    ELSE [tenant_id |-> "default", warehouse_id |-> NoWarehouse, lat |-> 10,
          weight |-> 2, window |-> NoWindow]

Sessions == {"tick", "manual"}

EmptyTx == [superseded |-> {}, new_routes |-> <<>>, links |-> {}, driver_pos |-> {}]

(* A session with no call in progress.  The field locations is the        *)
(* LiveLocationStore's entries of the session's tenant when the call       *)
(* entered reroute_tenant: the snapshot reroute_all_tenants took, and for  *)
(* reroute_now, which takes none, a record of what the store then held.    *)
(* The field orders holds the ids of the rows the call's reads of a        *)
(* depot's orders (line 116) have returned so far.                         *)
IdleSession ==
    [pc |-> "idle", tenants |-> {}, tenant |-> "default", whs |-> {}, wh |-> NoWarehouse,
     new |-> <<>>, seen |-> {}, tx |-> EmptyTx,
     locations |-> [d \in DriverIds |-> None],
     orders |-> {},
     reoptimized |-> {}, processed |-> {},
     demand |-> {}, committed |-> {}, raised |-> {}]

(***************************************************************************)
(* Queries of reroute_service.                                             *)
(***************************************************************************)
(* A variant of the order filter that takes an order of any status. *)
AnyStoredOrder(orders, o) == orders[o].status # "absent"

(* Order.status.in_(["pending", "assigned"]). *)
InFlight(orders, o) == orders[o].status \in {"pending", "assigned"}

(* _select_orders_for_reroute: ids of the pending or assigned orders of    *)
(* the tenant, of one depot when warehouse_id is given.                    *)
_select_orders_for_reroute(orders, tenant_id, warehouse_id) ==
    {o \in StoredOrderIds :
        /\ OrderCols(o).tenant_id = tenant_id
        /\ InFlight(orders, o)
        /\ warehouse_id # NoWarehouse => OrderCols(o).warehouse_id = warehouse_id}

(* The solver_orders list built from the selected rows. *)
SolverOrders(ids) ==
    LET seq == AscendingSeq(ids)
    IN  [i \in DOMAIN seq |->
            Order(seq[i], OrderCols(seq[i]).lat, OrderCols(seq[i]).weight,
                  OrderCols(seq[i]).window)]

(* Driver rows as the session sees them: its own pending position writes   *)
(* over the committed rows.                                                *)
SessionDrivers(drivers, tx) ==
    [d \in DriverIds |->
        IF \E w \in tx.driver_pos : w[1] = d
        THEN [drivers[d] EXCEPT !.current_lat =
                 (CHOOSE w \in tx.driver_pos : w[1] = d)[2]]
        ELSE drivers[d]]

_build_drivers_payload(drivers, tenant_id, warehouse_id) ==
    LET ids == {d \in DriverIds :
                  /\ drivers[d].tenant_id = tenant_id
                  /\ drivers[d].status # "offline"
                  /\ warehouse_id # NoWarehouse => drivers[d].warehouse_id = warehouse_id}
        seq == AscendingSeq(ids)
    IN  [i \in DOMAIN seq |->
            Driver(seq[i], drivers[seq[i]].current_lat, drivers[seq[i]].vehicle_capacity)]

RerouteAvgSpeedKmph == 30

(* The calculate_routes call of _reroute_warehouse and of the legacy batch *)
(* (warehouse_coords None).                                                *)
RerouteRequest(order_ids, drivers_payload, warehouse_coords) ==
    [orders |-> SolverOrders(order_ids), drivers |-> Len(drivers_payload),
     method |-> "ortools", use_ml |-> TRUE, drivers_data |-> drivers_payload,
     avg_speed_kmph |-> RerouteAvgSpeedKmph, use_osrm |-> TRUE,
     warehouse_coords |-> warehouse_coords, enable_clustering |-> TRUE]

(* The warehouses of reroute_tenant's first query. *)
WarehousesWithDemand(orders, tenant_id) ==
    {OrderCols(o).warehouse_id :
        o \in {x \in _select_orders_for_reroute(orders, tenant_id, NoWarehouse) :
                 OrderCols(x).warehouse_id # NoWarehouse}}

(* A variant of the filter without the depot condition. *)
SupersedeTenantWide(row, tenant_id, warehouse_id) ==
    /\ row.tenant_id = tenant_id
    /\ row.status \in {"planned", "active"}

(* The filter of the supersede UPDATE of _reroute_warehouse. *)
SupersedeFilter(row, tenant_id, warehouse_id) ==
    /\ row.tenant_id = tenant_id
    /\ row.warehouse_id = warehouse_id
    /\ row.status \in {"planned", "active"}

(* A variant that writes a new route over the row of the depot's earlier  *)
(* route instead of adding a row.                                          *)
RouteIdReused(by, cycle, warehouse_id, i) == <<"seed", 0, warehouse_id, i>>

(* The primary key of a Route row added by a cycle. *)
RouteId(by, cycle, warehouse_id, i) == <<by, cycle, warehouse_id, i>>

(* The Route rows _reroute_warehouse adds for a result, by route id.  The  *)
(* columns kept are the ones an operation of the model reads or filters    *)
(* on, plus the order ids of geometry_json.points and the method tag.      *)
NewRoutes(by, cycle, tenant_id, warehouse_id, res, drivers_payload) ==
    LET kept == {i \in DOMAIN res.routes : res.routes[i].route # <<>>}
    IN  [id \in {RouteId(by, cycle, warehouse_id, i) : i \in kept} |->
            LET route_data == res.routes[id[4]]
            IN  [tenant_id |-> tenant_id,
                 driver_id |-> IF id[4] <= Len(drivers_payload)
                               THEN drivers_payload[id[4]].driver_id ELSE None,
                 warehouse_id |-> warehouse_id,
                 status |-> "active",
                 points |-> route_data.route,
                 method |-> res.method,
                 by |-> by]]

(* A variant that links every order the depot holds when the routes are    *)
(* written.                                                                *)
NewLinksWholeDepot(new_routes) ==
    UNION { {<<o, id>> : o \in _select_orders_for_reroute(
                                   db_orders, new_routes[id].tenant_id,
                                   new_routes[id].warehouse_id)} :
            id \in DOMAIN new_routes }

(* order.route_id = route.id for every order id of every new route. *)
NewLinks(new_routes) ==
    UNION { {<<o, id>> : o \in Range(new_routes[id].points)} : id \in DOMAIN new_routes }

(***************************************************************************)
(* Initial stored states: one of the order sets exists; a depot either     *)
(* has no route yet (its orders pending) or holds the active route of an   *)
(* earlier cycle, made while its driver was available, that carries all    *)
(* its orders; the orders of a depot with a route may since have been      *)
(* delivered.                                                              *)
(***************************************************************************)
DbConfigs ==
    [OSRM_FALLBACK_HAVERSINE : BOOLEAN, OSRM_MAX_POINTS : {4},
     sklearn_available : {TRUE}, ortools_available : {TRUE},
     predictor : {"fallback"}]

StoredSets == {{1, 3, 4}, {2, 3, 5}}

DepotOrders(present, w) == {o \in present : OrderCols(o).warehouse_id = w}

SeedRoutes(present, w) ==
    LET payload == _build_drivers_payload(
                       [d \in DriverIds |-> [SeedDriver(d) EXCEPT !.status = "available"]],
                       Warehouse(w).tenant_id, w)
        request == RerouteRequest(DepotOrders(present, w), payload, Warehouse(w).lat)
        table   == [raised |-> TRUE, distances_km |-> NoMatrix, durations_sec |-> NoMatrix]
        args    == PlanArgs(request, table)
        preds   == Preds(args.orders, DistanceKm(args.orders, args.depot_coords),
                         TRUE, "fallback")
    IN  NewRoutes("seed", 0, Warehouse(w).tenant_id, w,
                  GreedyResult(args, preds, "greedy_fallback"), payload)

RECURSIVE MergeAll(_)
MergeAll(fs) ==
    IF fs = {} THEN <<>>
    ELSE LET f == CHOOSE g \in fs : TRUE IN f @@ MergeAll(fs \ {f})

RouteOf(routes, o) ==
    LET at == {id \in DOMAIN routes : o \in Range(routes[id].points)}
    IN  IF at = {} THEN NoRoute ELSE CHOOSE id \in at : TRUE

(* The depots whose orders have all been delivered: none, one depot of     *)
(* tenant "default", or every depot that has a route.                      *)
DeliveredSets(seeded) == {{}, seeded \cap {"w2"}, seeded}

NoLocations == [t \in TenantIds |-> [d \in DriverIds |-> None]]

Init ==
    /\ ExtraUnused
    /\ cfg \in DbConfigs
    /\ \E present \in StoredSets :
         \E seeded \in {{}, {w \in WarehouseIds : DepotOrders(present, w) # {}}} :
          \E delivered \in DeliveredSets(seeded) :
            /\ db_routes = MergeAll({SeedRoutes(present, w) : w \in seeded})
            /\ db_orders = [o \in StoredOrderIds |->
                  IF o \notin present THEN [status |-> "absent", route_id |-> NoRoute]
                  ELSE IF OrderCols(o).warehouse_id \in seeded
                  THEN [status |-> IF OrderCols(o).warehouse_id \in delivered
                                   THEN "delivered" ELSE "assigned",
                        route_id |-> RouteOf(SeedRoutes(present, OrderCols(o).warehouse_id), o)]
                  ELSE [status |-> "pending", route_id |-> NoRoute]]
    /\ db_drivers = [d \in DriverIds |-> SeedDriver(d)]
    /\ live = NoLocations
    /\ sess = [s \in Sessions |-> IdleSession]
    /\ ticks = 0
    /\ manuals = 0
    /\ req = <<>>
    /\ opc = "unused"
    /\ batches = <<>>
    /\ clustered = FALSE
    /\ solves = <<>>
    /\ result = NoResult
    /\ StoreUnused

(***************************************************************************)
(* LiveLocationStore.update_location, fed by the location websocket.       *)
(***************************************************************************)
LiveUpdates == {<<"default", 1, 11>>}

(* The store is read by the scheduler's tick only, once per tenant: an     *)
(* update is followed while a tick can still read the tenant's entries.    *)
WillBeRead(tenant_id) ==
    \/ ticks < MaxTicks
    \/ sess["tick"].pc = "tenant" /\ tenant_id \in sess["tick"].tenants

UpdateLocation ==
    /\ \E u \in LiveUpdates :
         /\ live[u[1]][u[2]] # u[3]
         /\ WillBeRead(u[1])
         /\ live' = [live EXCEPT ![u[1]][u[2]] = u[3]]
    /\ UNCHANGED <<db_routes, db_orders, db_drivers, sess, ticks, manuals>>
    /\ UNCHANGED <<cfg, optVars, storeVars, extraVars>>

(* get_all_locations_sync: a copy of the tenant's entries. *)
get_all_locations_sync(tenant_id) == live[tenant_id]

(* _sync_driver_positions: the position writes the session now holds. *)
_sync_driver_positions(tenant_id, locations) ==
    { <<d, locations[d]>> :
        d \in {x \in DriverIds : db_drivers[x].tenant_id = tenant_id
                                 /\ locations[x] # None} }

(***************************************************************************)
(* reroute_scheduler / reroute_all_tenants (session "tick") and            *)
(* reroute_now (session "manual"); both run reroute_tenant.                *)
(***************************************************************************)
AllDemand ==
    UNION {WarehousesWithDemand(db_orders, t) : t \in TenantIds}

(* reroute_all_tenants lines 249-253: open the session, list the tenants. *)
TickStart ==
    /\ ticks < MaxTicks
    /\ sess["tick"].pc = "idle"
    /\ ticks' = ticks + 1
    /\ LET tenant_ids == {OrderCols(o).tenant_id :
                            o \in {x \in StoredOrderIds : db_orders[x].status # "absent"}}
       IN  sess' = [sess EXCEPT !["tick"] =
                      [IdleSession EXCEPT !.pc = IF tenant_ids = {} THEN "closing" ELSE "tenant",
                                          !.tenants = tenant_ids,
                                          !.demand = AllDemand]]
    /\ UNCHANGED <<db_routes, db_orders, db_drivers, live, manuals>>
    /\ UNCHANGED <<cfg, optVars, storeVars, extraVars>>

(* reroute_all_tenants lines 254-258 up to the first query of             *)
(* reroute_tenant: snapshot the live positions, write them to the driver   *)
(* rows, list the tenant's depots with demand.                             *)
TickTenant ==
    /\ sess["tick"].pc = "tenant"
    /\ \E t \in sess["tick"].tenants :
         sess' = [sess EXCEPT !["tick"] =
                    [@ EXCEPT !.pc = "depots", !.tenant = t, !.tenants = @ \ {t},
                              !.locations = get_all_locations_sync(t),
                              !.tx = [EmptyTx EXCEPT !.driver_pos =
                                        _sync_driver_positions(t, get_all_locations_sync(t))],
                              !.whs = WarehousesWithDemand(db_orders, t),
                              !.reoptimized = {}, !.processed = {}]]
    /\ UNCHANGED <<db_routes, db_orders, db_drivers, live, ticks, manuals>>
    /\ UNCHANGED <<cfg, optVars, storeVars, extraVars>>

(* reroute_now up to the first query of reroute_tenant. *)
ManualStart ==
    /\ manuals < MaxManuals
    /\ sess["manual"].pc = "idle"
    /\ manuals' = manuals + 1
    /\ sess' = [sess EXCEPT !["manual"] =
                  [IdleSession EXCEPT !.pc = "depots", !.tenant = "default",
                                      !.locations = get_all_locations_sync("default"),
                                      !.whs = WarehousesWithDemand(db_orders, "default")]]
    /\ UNCHANGED <<db_routes, db_orders, db_drivers, live, ticks>>
    /\ UNCHANGED <<cfg, optVars, storeVars, extraVars>>


Cycle(s) == IF s = "tick" THEN ticks ELSE manuals

(* A variant of the skip that supersedes the depot's routes first. *)
SkippedSupersedes(s, wh, orders) ==
    sess' = [sess EXCEPT ![s] =
               [@ EXCEPT !.whs = @ \ {wh}, !.processed = @ \cup {wh},
                         !.orders = @ \cup orders,
                         !.tx = [@ EXCEPT !.superseded = @ \cup
                                   {id \in DOMAIN db_routes :
                                       SupersedeFilter(db_routes[id], sess[s].tenant, wh)}]]]

(* _reroute_warehouse returning {"status": "skipped"} (lines 123-124,      *)
(* 128-129, 149-150): nothing written, the loop goes to the next depot.    *)
Skipped(s, wh, orders) ==
    sess' = [sess EXCEPT ![s] = [@ EXCEPT !.whs = @ \ {wh},
                                          !.orders = @ \cup orders,
                                          !.processed = @ \cup {wh}]]

(* An exception leaving reroute_tenant: no commit follows, the remaining   *)
(* depots and tenants are not visited, and the session's transaction stays *)
(* open until the finally clause closes the session.                       *)
Raised(s, wh, orders) ==
    sess' = [sess EXCEPT ![s] = [@ EXCEPT !.pc = "closing", !.tenants = {}, !.whs = {},
                                          !.orders = @ \cup orders,
                                          !.wh = NoWarehouse, !.new = <<>>, !.seen = {},
                                          !.raised = @ \cup {wh}]]

(* _reroute_warehouse lines 153-188 once the supersede UPDATE holds the    *)
(* rows it matched: the rows are superseded, the new routes added and the  *)
(* orders linked, all pending until the commit.                            *)
Written(s, wh, matches, new, orders) ==
    LET me  == sess[s]
        own == [id \in DOMAIN me.tx.new_routes |->
                  IF SupersedeFilter(me.tx.new_routes[id], me.tenant, wh)
                  THEN [me.tx.new_routes[id] EXCEPT !.status = "superseded"]
                  ELSE me.tx.new_routes[id]]
    IN  sess' = [sess EXCEPT ![s] =
           [@ EXCEPT !.pc = "depots", !.whs = @ \ {wh}, !.wh = NoWarehouse,
                     !.new = <<>>, !.seen = {},
                     !.orders = @ \cup orders,
                     !.reoptimized = @ \cup {wh},
                     !.processed = @ \cup {wh},
                     !.tx = [@ EXCEPT
                        !.superseded = @ \cup matches,
                        !.new_routes = new @@ own,
                        !.links = {l \in @ : \A k \in NewLinks(new) : k[1] # l[1]}
                                     \cup NewLinks(new)]]]

(* The route rows another open transaction has updated and so holds. *)
HeldByOthers(s) == UNION {sess[t].tx.superseded : t \in Sessions \ {s}}

(* _reroute_warehouse for one depot of the loop of reroute_tenant (lines   *)
(* 214-221): read the depot's orders and drivers, optimise, and run the    *)
(* supersede UPDATE; when that meets a row held by another transaction it  *)
(* waits with the rows it has matched.                                     *)
RerouteWarehouse(s) ==
    /\ sess[s].pc = "depots"
    /\ \E wh \in sess[s].whs :
         LET me      == sess[s]
             orders  == _select_orders_for_reroute(db_orders, me.tenant, wh)
             payload == _build_drivers_payload(SessionDrivers(db_drivers, me.tx),
                                               me.tenant, wh)
             matches == {id \in DOMAIN db_routes :
                            SupersedeFilter(db_routes[id], me.tenant, wh)}
         IN  IF orders = {} \/ payload = <<>>
             THEN Skipped(s, wh, orders)
             ELSE \E res \in calculate_routes(
                                RerouteRequest(orders, payload, Warehouse(wh).lat), cfg) :
                     IF res.error THEN Raised(s, wh, orders)
                     ELSE IF res.routes = <<>> THEN Skipped(s, wh, orders)
                     ELSE LET new == NewRoutes(s, Cycle(s), me.tenant, wh, res, payload)
                          IN  IF matches \cap HeldByOthers(s) = {}
                              THEN Written(s, wh, matches, new, orders)
                              ELSE sess' = [sess EXCEPT ![s] =
                                              [@ EXCEPT !.pc = "blocked", !.wh = wh,
                                                        !.orders = @ \cup orders,
                                                        !.new = new, !.seen = matches]]
    /\ UNCHANGED <<db_routes, db_orders, db_drivers, live, ticks, manuals>>
    /\ UNCHANGED <<cfg, optVars, storeVars, extraVars>>

(* The waiting UPDATE goes on when the rows are released: it takes the     *)
(* rows of its own snapshot that still pass the filter.                    *)
Resume(s) ==
    /\ sess[s].pc = "blocked"
    /\ sess[s].seen \cap HeldByOthers(s) = {}
    /\ Written(s, sess[s].wh,
               {id \in sess[s].seen :
                   SupersedeFilter(db_routes[id], sess[s].tenant, sess[s].wh)},
               sess[s].new, {})
    /\ UNCHANGED <<db_routes, db_orders, db_drivers, live, ticks, manuals>>
    /\ UNCHANGED <<cfg, optVars, storeVars, extraVars>>

(* Two transactions each waiting for rows the other holds: the database    *)
(* aborts one of them, whose statement raises.                             *)
DeadlockAbort(s) ==
    /\ sess[s].pc = "blocked"
    /\ \E t \in Sessions \ {s} :
          /\ sess[t].pc = "blocked"
          /\ sess[t].seen \cap sess[s].tx.superseded # {}
          /\ sess[s].seen \cap sess[t].tx.superseded # {}
    /\ Raised(s, sess[s].wh, {})
    /\ UNCHANGED <<db_routes, db_orders, db_drivers, live, ticks, manuals>>
    /\ UNCHANGED <<cfg, optVars, storeVars, extraVars>>

(* A variant of the end of reroute_tenant that stores the routes computed  *)
(* for the orders without a depot and links those orders to them.          *)
FinishTenantStoresLegacy(s) ==
    /\ sess[s].pc = "depots"
    /\ sess[s].whs = {}
    /\ LET me      == sess[s]
           tx      == me.tx
           orphan  == {o \in _select_orders_for_reroute(db_orders, me.tenant, NoWarehouse) :
                          OrderCols(o).warehouse_id = NoWarehouse}
           payload == _build_drivers_payload(SessionDrivers(db_drivers, tx),
                                             me.tenant, NoWarehouse)
           legacy  == IF orphan # {} /\ payload # <<>>
                      THEN calculate_routes(RerouteRequest(orphan, payload, None), cfg)
                      ELSE {NoResult}
       IN  \E res \in legacy :
              IF res.error
              THEN /\ Raised(s, NoWarehouse, {})
                   /\ UNCHANGED <<db_routes, db_orders, db_drivers>>
              ELSE LET stored == NewRoutes(s, Cycle(s), me.tenant, NoWarehouse, res, payload)
                       links  == tx.links \cup NewLinks(stored)
                   IN
                   /\ db_routes' =
                         stored @@ tx.new_routes @@
                         [id \in DOMAIN db_routes |->
                            IF id \in tx.superseded
                            THEN [db_routes[id] EXCEPT !.status = "superseded"]
                            ELSE db_routes[id]]
                   /\ db_orders' =
                         [o \in StoredOrderIds |->
                            IF \E l \in links : l[1] = o
                            THEN [status |-> "assigned",
                                  route_id |-> (CHOOSE l \in links : l[1] = o)[2]]
                            ELSE db_orders[o]]
                   /\ db_drivers' = SessionDrivers(db_drivers, tx)
                   /\ sess' = [sess EXCEPT ![s] =
                         [@ EXCEPT !.pc = IF me.tenants # {} THEN "tenant" ELSE "closing",
                                   !.tx = EmptyTx,
                                   !.locations = IdleSession.locations,
                                   !.reoptimized = {}, !.processed = {},
                                   !.committed = @ \cup me.processed]]
    /\ UNCHANGED <<live, ticks, manuals>>
    /\ UNCHANGED <<cfg, optVars, storeVars, extraVars>>

(* reroute_tenant lines 223-245: the orders without a depot are optimised  *)
(* and the result is dropped; then db.commit().  The tick goes on to its   *)
(* next tenant.                                                            *)
FinishTenant(s) ==
    /\ sess[s].pc = "depots"
    /\ sess[s].whs = {}
    /\ LET me      == sess[s]
           tx      == me.tx
           orphan  == {o \in _select_orders_for_reroute(db_orders, me.tenant, NoWarehouse) :
                          OrderCols(o).warehouse_id = NoWarehouse}
           payload == _build_drivers_payload(SessionDrivers(db_drivers, tx),
                                             me.tenant, NoWarehouse)
           legacy  == IF orphan # {} /\ payload # <<>>
                      THEN calculate_routes(RerouteRequest(orphan, payload, None), cfg)
                      ELSE {NoResult}
       IN  \E res \in legacy :
              IF res.error
              THEN /\ Raised(s, NoWarehouse, {})
                   /\ UNCHANGED <<db_routes, db_orders, db_drivers>>
              ELSE /\ db_routes' =
                         tx.new_routes @@
                         [id \in DOMAIN db_routes |->
                            IF id \in tx.superseded
                            THEN [db_routes[id] EXCEPT !.status = "superseded"]
                            ELSE db_routes[id]]
                   /\ db_orders' =
                         [o \in StoredOrderIds |->
                            IF \E l \in tx.links : l[1] = o
                            THEN [status |-> "assigned",
                                  route_id |-> (CHOOSE l \in tx.links : l[1] = o)[2]]
                            ELSE db_orders[o]]
                   /\ db_drivers' = SessionDrivers(db_drivers, tx)
                   /\ sess' = [sess EXCEPT ![s] =
                         [@ EXCEPT !.pc = IF me.tenants # {} THEN "tenant" ELSE "closing",
                                   !.tx = EmptyTx,
                                   !.locations = IdleSession.locations,
                                   !.reoptimized = {}, !.processed = {},
                                   !.committed = @ \cup me.processed]]
    /\ UNCHANGED <<live, ticks, manuals>>
    /\ UNCHANGED <<cfg, optVars, storeVars, extraVars>>

(* A variant of the close that writes the open transaction to the tables. *)
CloseCommits(s) ==
    /\ sess[s].pc = "closing"
    /\ db_routes' =
          sess[s].tx.new_routes @@
          [id \in DOMAIN db_routes |->
             IF id \in sess[s].tx.superseded
             THEN [db_routes[id] EXCEPT !.status = "superseded"]
             ELSE db_routes[id]]
    /\ sess' = [sess EXCEPT ![s] = IdleSession]
    /\ UNCHANGED <<db_orders, db_drivers, live, ticks, manuals>>
    /\ UNCHANGED <<cfg, optVars, storeVars, extraVars>>

(* The finally clause of reroute_all_tenants and of reroute_now:           *)
(* db.close(), which rolls back whatever was not committed.                *)
Close(s) ==
    /\ sess[s].pc = "closing"
    /\ sess' = [sess EXCEPT ![s] = IdleSession]
    /\ UNCHANGED <<db_routes, db_orders, db_drivers, live, ticks, manuals>>
    /\ UNCHANGED <<cfg, optVars, storeVars, extraVars>>

Next ==
    \/ UpdateLocation
    \/ TickStart
    \/ TickTenant
    \/ ManualStart
    \/ \E s \in Sessions : RerouteWarehouse(s)
    \/ \E s \in Sessions : Resume(s)
    \/ \E s \in Sessions : DeadlockAbort(s)
    \/ \E s \in Sessions : FinishTenant(s)
    \/ \E s \in Sessions : Close(s)

Spec == Init /\ [][Next]_vars

(***************************************************************************)
(* POST /routes/optimize (run_optimization) beside the reroutes.  The      *)
(* handler reads the pending orders and the drivers, optimizes, adds the   *)
(* routes as "planned" and commits; it updates no route row, so it waits   *)
(* for none, and its reads and its commit are taken as one step.           *)
(***************************************************************************)
MaxOptimizes == 1

(* The warehouse_id query parameter of the requests followed. *)
OptimizeWarehouses == {"w2"}

(* The requests that have stored routes so far, plus one. *)
OptimizeCycle ==
    Cardinality({id[2] : id \in {x \in DOMAIN db_routes : x[1] = "optimize"}}) + 1

(* run_optimization lines 68-73. *)
PendingOrders(orders, tenant_id, warehouse_id) ==
    {o \in StoredOrderIds :
        /\ OrderCols(o).tenant_id = tenant_id
        /\ orders[o].status = "pending"
        /\ warehouse_id # NoWarehouse => OrderCols(o).warehouse_id = warehouse_id}

(* run_optimization lines 143-164: the rows added for a result. *)
PlannedRoutes(cycle, tenant_id, warehouse_id, res, drivers_payload) ==
    LET rows == NewRoutes("optimize", cycle, tenant_id, warehouse_id, res, drivers_payload)
    IN  [id \in DOMAIN rows |-> [rows[id] EXCEPT !.status = "planned"]]

Optimize ==
    /\ OptimizeCycle <= MaxOptimizes
    /\ \E warehouse_id \in OptimizeWarehouses :
         LET tenant_id == "default"
             orders    == PendingOrders(db_orders, tenant_id, warehouse_id)
             payload   == _build_drivers_payload(db_drivers, tenant_id, warehouse_id)
             coords    == IF warehouse_id = NoWarehouse THEN None
                          ELSE Warehouse(warehouse_id).lat
         IN  /\ orders # {}
             /\ payload # <<>>
             /\ \E res \in calculate_routes(RerouteRequest(orders, payload, coords), cfg) :
                   LET new == PlannedRoutes(OptimizeCycle, tenant_id, warehouse_id,
                                            res, payload)
                   IN  /\ ~res.error
                       /\ db_routes' = new @@ db_routes
                       /\ db_orders' =
                             [o \in StoredOrderIds |->
                                IF \E l \in NewLinks(new) : l[1] = o
                                THEN [status |-> "assigned",
                                      route_id |-> (CHOOSE l \in NewLinks(new) : l[1] = o)[2]]
                                ELSE db_orders[o]]
    /\ UNCHANGED <<db_drivers, live, sess, ticks, manuals>>
    /\ UNCHANGED <<cfg, optVars, storeVars, extraVars>>

NextRoutes == Next \/ Optimize

(* The stored states of Init under the settings with the geometric         *)
(* fallback enabled.                                                       *)
InitRoutes == Init /\ cfg.OSRM_FALLBACK_HAVERSINE

SpecRoutes == InitRoutes /\ [][NextRoutes]_vars

(***************************************************************************)
(* LiveLocationStore called from several threads: the websocket handlers   *)
(* call update_location, the scheduler's thread and the handlers read      *)
(* snapshots.  Every method runs its body inside "with self._lock".        *)
(***************************************************************************)
MaxUpdates == 3

MaxReads == 2

LiveThreads == {"ws1", "ws2", "scheduler"}

LiveTenants == {"default", "t2"}

LiveDrivers == {"d1", "d2"}

(* <<lat, lng, speed_kmph>> of the updates followed; the speed is optional. *)
LivePositions == { <<10, 70, 40>>, <<11, 71, None>> }

(* The update calls followed: <<tenant_id, driver_id, position>>. *)
LiveCalls ==
    { c \in LiveTenants \X LiveDrivers \X LivePositions :
        c[1] = "t2" => (c[2] = "d1" /\ c[3][3] = None) }

IdleThread == [pc |-> "idle", op |-> "none", args |-> <<>>, snapshot |-> <<>>]

(* A variant that writes the new values into the key's existing entry. *)
update_in_place(st, tenant_id, driver_id, lat, lng, speed_kmph, ts) ==
    LET entry == [lat |-> lat, lng |-> lng, speed_kmph |-> speed_kmph, ts |-> ts]
        known == tenant_id \in DOMAIN st.locations
                   /\ driver_id \in DOMAIN st.locations[tenant_id]
        old   == IF tenant_id \in DOMAIN st.locations THEN st.locations[tenant_id] ELSE <<>>
    IN  IF known
        THEN [locations |-> st.locations,
              heap |-> [st.heap EXCEPT ![st.locations[tenant_id][driver_id]] = entry]]
        ELSE [locations |->
                 [t \in DOMAIN st.locations \cup {tenant_id} |->
                    IF t = tenant_id
                    THEN [d \in DOMAIN old \cup {driver_id} |->
                            IF d = driver_id THEN Len(st.heap) + 1 ELSE old[d]]
                    ELSE st.locations[t]],
              heap |-> Append(st.heap, entry)]

(* A variant that keeps the entry a key already has. *)
update_if_absent(st, tenant_id, driver_id, lat, lng, speed_kmph, ts) ==
    LET entry == [lat |-> lat, lng |-> lng, speed_kmph |-> speed_kmph, ts |-> ts]
        old   == IF tenant_id \in DOMAIN st.locations THEN st.locations[tenant_id] ELSE <<>>
    IN  [locations |->
            [t \in DOMAIN st.locations \cup {tenant_id} |->
               IF t = tenant_id
               THEN [d \in DOMAIN old \cup {driver_id} |->
                       IF d \in DOMAIN old THEN old[d] ELSE Len(st.heap) + 1]
               ELSE st.locations[t]],
         heap |-> Append(st.heap, entry)]

(* The body of update_location (lines 40-45) on the store st: a new entry  *)
(* dict is built and put under the key, in the tenant's dict, which        *)
(* setdefault makes when the tenant has none.                              *)
update_location(st, tenant_id, driver_id, lat, lng, speed_kmph, ts) ==
    LET entry == [lat |-> lat, lng |-> lng, speed_kmph |-> speed_kmph, ts |-> ts]
        old   == IF tenant_id \in DOMAIN st.locations THEN st.locations[tenant_id] ELSE <<>>
    IN  [locations |->
            [t \in DOMAIN st.locations \cup {tenant_id} |->
               IF t = tenant_id
               THEN [d \in DOMAIN old \cup {driver_id} |->
                       IF d = driver_id THEN Len(st.heap) + 1 ELSE old[d]]
               ELSE st.locations[t]],
         heap |-> Append(st.heap, entry)]

(* The body of get_all_locations and of get_all_locations_sync (lines 53   *)
(* and 57): a new dict with the tenant's keys and the same entry objects.  *)
get_all_locations(st, tenant_id) ==
    IF tenant_id \in DOMAIN st.locations THEN st.locations[tenant_id] ELSE <<>>

Store == [locations |-> _locations, heap |-> heap]

(* The <<lat, lng, speed_kmph>> an entry holds. *)
EntryPosition(hp, ref) == <<hp[ref].lat, hp[ref].lng, hp[ref].speed_kmph>>

NoPosition == <<>>

(* The position the store holds for a key, if any. *)
Position(st, tenant_id, driver_id) ==
    IF tenant_id \in DOMAIN st.locations /\ driver_id \in DOMAIN st.locations[tenant_id]
    THEN EntryPosition(st.heap, st.locations[tenant_id][driver_id])
    ELSE NoPosition

UpdatesCalled ==
    Len(history) + Cardinality({th \in LiveThreads :
                                   threads[th].op = "update"
                                      /\ threads[th].pc \in {"acquire", "body"}})

ReadsCalled ==
    Len(returned) + Cardinality({th \in LiveThreads : threads[th].op = "read"})

OthersUnused ==
    /\ ExtraUnused
    /\ cfg = <<>>
    /\ req = <<>>
    /\ opc = "unused"
    /\ batches = <<>>
    /\ clustered = FALSE
    /\ solves = <<>>
    /\ result = NoResult
    /\ DbUnused

InitLive ==
    /\ _locations = <<>>
    /\ heap = <<>>
    /\ _lock = NoThread
    /\ threads = [th \in LiveThreads |-> IdleThread]
    /\ returned = <<>>
    /\ history = <<>>
    /\ OthersUnused

(* A websocket handler calls update_location. *)
CallUpdate(th) ==
    /\ th # "scheduler"
    /\ threads[th].pc = "idle"
    /\ UpdatesCalled < MaxUpdates
    /\ \E c \in LiveCalls :
         threads' = [threads EXCEPT ![th] =
                       [IdleThread EXCEPT !.pc = "acquire", !.op = "update", !.args = c]]
    /\ UNCHANGED <<_locations, heap, _lock, returned, history>>
    /\ UNCHANGED <<cfg, optVars, dbVars, extraVars>>

(* The scheduler's thread calls get_all_locations_sync, a handler          *)
(* get_all_locations.                                                      *)
CallRead(th) ==
    /\ threads[th].pc = "idle"
    /\ ReadsCalled < MaxReads
    /\ \E t \in LiveTenants :
         threads' = [threads EXCEPT ![th] =
                       [IdleThread EXCEPT !.pc = "acquire", !.op = "read", !.args = <<t>>]]
    /\ UNCHANGED <<_locations, heap, _lock, returned, history>>
    /\ UNCHANGED <<cfg, optVars, dbVars, extraVars>>

(* with self._lock: enter. *)
Acquire(th) ==
    /\ threads[th].pc = "acquire"
    /\ _lock = NoThread
    /\ _lock' = th
    /\ threads' = [threads EXCEPT ![th].pc = "body"]
    /\ UNCHANGED <<_locations, heap, returned, history>>
    /\ UNCHANGED <<cfg, optVars, dbVars, extraVars>>

(* The body of update_location; the timestamp is the count of updates. *)
UpdateBody(th) ==
    /\ threads[th].pc = "body"
    /\ threads[th].op = "update"
    /\ LET c  == threads[th].args
           st == update_location(Store, c[1], c[2], c[3][1], c[3][2], c[3][3],
                                 Len(history) + 1)
       IN  /\ _locations' = st.locations
           /\ heap' = st.heap
           /\ history' = Append(history, c)
    /\ threads' = [threads EXCEPT ![th].pc = "release"]
    /\ UNCHANGED <<_lock, returned>>
    /\ UNCHANGED <<cfg, optVars, dbVars, extraVars>>

(* The body of a snapshot read. *)
ReadBody(th) ==
    /\ threads[th].pc = "body"
    /\ threads[th].op = "read"
    /\ threads' = [threads EXCEPT ![th].pc = "release",
                                  ![th].snapshot = get_all_locations(Store, threads[th].args[1])]
    /\ UNCHANGED <<_locations, heap, _lock, returned, history>>
    /\ UNCHANGED <<cfg, optVars, dbVars, extraVars>>

(* with self._lock: leave, and return to the caller.  A returned snapshot  *)
(* is kept with the positions it showed when it was returned.              *)
Release(th) ==
    /\ threads[th].pc = "release"
    /\ _lock' = NoThread
    /\ returned' =
          IF threads[th].op = "read"
          THEN Append(returned,
                      [tenant_id |-> threads[th].args[1],
                       entries |-> threads[th].snapshot,
                       seen |-> [d \in DOMAIN threads[th].snapshot |->
                                   EntryPosition(heap, threads[th].snapshot[d])]])
          ELSE returned
    /\ threads' = [threads EXCEPT ![th] = IdleThread]
    /\ UNCHANGED <<_locations, heap, history>>
    /\ UNCHANGED <<cfg, optVars, dbVars, extraVars>>

NextLive ==
    \/ \E th \in LiveThreads : CallUpdate(th)
    \/ \E th \in LiveThreads : CallRead(th)
    \/ \E th \in LiveThreads : Acquire(th)
    \/ \E th \in LiveThreads : UpdateBody(th)
    \/ \E th \in LiveThreads : ReadBody(th)
    \/ \E th \in LiveThreads : Release(th)

SpecLive == InitLive /\ [][NextLive]_vars

(***************************************************************************)
(* One cluster_orders call on its own, for stop lists of every length up   *)
(* to MaxClusterInput.                                                     *)
(***************************************************************************)
MaxClusterInput == 4

(* Latitudes of the stops: two dense places and a point far from both. *)
ClusterLats == {10, 11, 15, 20}

ClusterInputs ==
    UNION { { [i \in 1..n |-> Order(i, lat[i], 2, NoWindow)] :
                lat \in [1..n -> ClusterLats] } : n \in 0..MaxClusterInput }

(* The values min_samples takes: the default of the function and the one   *)
(* calculate_routes passes.                                                *)
ClusterMinSampleValues == {2, ClusterMinSamples}

CallUnused ==
    /\ ExtraUnused
    /\ cfg = <<>>
    /\ batches = <<>>
    /\ clustered = FALSE
    /\ solves = <<>>
    /\ DbUnused
    /\ StoreUnused

InitCluster ==
    /\ req \in [orders : ClusterInputs, eps_km : {ClusterEpsKm},
                 min_samples : ClusterMinSampleValues, sklearn_available : BOOLEAN]
    /\ opc = "received"
    /\ result = <<>>
    /\ CallUnused

ClusterOrders ==
    /\ opc = "received"
    /\ req.orders \in ClusterInputs
    /\ result' = cluster_orders(req.orders, req.eps_km, req.min_samples,
                                req.sklearn_available)
    /\ opc' = "clustered"
    /\ UNCHANGED <<req, cfg, batches, clustered, solves>>
    /\ UNCHANGED <<dbVars, storeVars, extraVars>>

SpecCluster == InitCluster /\ [][ClusterOrders]_vars

(***************************************************************************)
(* One greedy_vrp call on its own, for every list of up to MaxGreedyOrders *)
(* stops with the distances and predicted delays below.                    *)
(***************************************************************************)
MaxGreedyOrders == 3

MaxGreedyDrivers == 3

GreedyDistances == {1, 2, 3}

GreedyDelays == {0, 1}

GreedyInputs ==
    UNION { [orders : {[i \in 1..n |-> Order(i, 10, 2, NoWindow)]},
             distance_km : [1..n -> GreedyDistances],
             preds : [1..n -> GreedyDelays],
             drivers : 1..MaxGreedyDrivers] : n \in 0..MaxGreedyOrders }

InitGreedy ==
    /\ req \in GreedyInputs
    /\ opc = "received"
    /\ result = <<>>
    /\ CallUnused

GreedyVrp ==
    /\ opc = "received"
    /\ req \in GreedyInputs
    /\ result' = greedy_vrp(req.orders, req.distance_km, req.preds, req.drivers)
    /\ opc' = "assigned"
    /\ UNCHANGED <<req, cfg, batches, clustered, solves>>
    /\ UNCHANGED <<dbVars, storeVars, extraVars>>

SpecGreedy == InitGreedy /\ [][GreedyVrp]_vars

(***************************************************************************)
(* Properties of the stored routes under Spec.                             *)
(***************************************************************************)
RoutesAt(routes, w, status) ==
    {id \in DOMAIN routes : routes[id].warehouse_id = w /\ routes[id].status = status}

InFlightAt(w) == _select_orders_for_reroute(db_orders, Warehouse(w).tenant_id, w)

(* C1: a depot whose routes a committed re-optimization has superseded and *)
(* that still has pending or assigned orders has at least one active       *)
(* route, whatever the optimizer returned.                                 *)
DepotKeepsActiveRoute ==
    \A w \in WarehouseIds :
        (RoutesAt(db_routes, w, "superseded") # {} /\ InFlightAt(w) # {})
            => RoutesAt(db_routes, w, "active") # {}

(* C2: once the tick and the manual reroute have both run and closed, the  *)
(* active routes of every depot come from one optimization cycle.          *)
OneActiveSetPerDepot ==
    (ticks > 0 /\ manuals > 0 /\ \A s \in Sessions : sess[s].pc = "idle")
        => \A w \in WarehouseIds :
              \A a, b \in RoutesAt(db_routes, w, "active") :
                  <<a[1], a[2]>> = <<b[1], b[2]>>

(* C3: when a tick ends, every depot that had pending or assigned orders   *)
(* at its start, other than the depots whose processing raised, has been   *)
(* processed and its result committed.                                     *)
DepotFailureIsolated ==
    sess["tick"].pc = "closing"
        => (sess["tick"].demand \ sess["tick"].raised) \subseteq sess["tick"].committed

RowsChanged ==
    {id \in DOMAIN db_routes' : id \notin DOMAIN db_routes \/ db_routes'[id] # db_routes[id]}

Commits(s) == sess[s].pc = "depots" /\ sess'[s].pc \in {"tenant", "closing"}

NowReoptimized(s) == sess'[s].reoptimized \ sess[s].reoptimized

(* C4: re-optimizing depot D of tenant T supersedes only routes of D and   *)
(* T and adds only routes of D; a commit changes the status, and nothing   *)
(* else, of the routes its transaction superseded, adds the routes it      *)
(* made, and leaves every route of another depot or tenant as it was.      *)
ReoptimizationFrame ==
    [][ /\ DOMAIN db_routes \subseteq DOMAIN db_routes'
        /\ \A id \in RowsChanged :
              \E s \in Sessions :
                 /\ Commits(s)
                 /\ db_routes'[id].tenant_id = sess[s].tenant
                 /\ db_routes'[id].warehouse_id \in sess[s].reoptimized
                 /\ id \in DOMAIN db_routes
                       => db_routes'[id] = [db_routes[id] EXCEPT !.status = "superseded"]
        /\ \A s \in Sessions :
              /\ \A id \in sess'[s].tx.superseded \ sess[s].tx.superseded :
                    /\ db_routes[id].tenant_id = sess[s].tenant
                    /\ db_routes[id].warehouse_id \in NowReoptimized(s)
              /\ \A id \in DOMAIN sess'[s].tx.new_routes :
                    \/ /\ id \in DOMAIN sess[s].tx.new_routes
                       /\ \/ sess'[s].tx.new_routes[id] = sess[s].tx.new_routes[id]
                          \/ sess[s].tx.new_routes[id].warehouse_id \in NowReoptimized(s)
                    \/ /\ id \notin DOMAIN sess[s].tx.new_routes
                       /\ sess'[s].tx.new_routes[id].tenant_id = sess[s].tenant
                       /\ sess'[s].tx.new_routes[id].warehouse_id \in NowReoptimized(s)
      ]_vars

SeedRouteId(w) == RouteId("seed", 0, w, 1)

(* C4 witness: a committed cycle has replaced the route of depot w1 while  *)
(* the routes of depot w2 and of the other tenant's depot w3 are as seeded.*)
ReoptimizedBesideOthers ==
    /\ {SeedRouteId("w1"), SeedRouteId("w2"), SeedRouteId("w3")} \subseteq DOMAIN db_routes
    /\ db_routes[SeedRouteId("w1")].status = "superseded"
    /\ \E id \in RoutesAt(db_routes, "w1", "active") : id[1] \in Sessions
    /\ db_routes[SeedRouteId("w2")].status = "active"
    /\ db_routes[SeedRouteId("w3")].status = "active"

(* C11: when a cycle has raised after it superseded routes or added new    *)
(* ones, nothing of its transaction is stored, then or after the session   *)
(* is closed: the routes it superseded are stored with the status they     *)
(* had, none of its new routes is stored, and no order is linked to one.   *)
AbortedCycleInvisible ==
    [][ \A s \in Sessions :
          (sess[s].pc = "closing" /\ sess[s].raised # {})
             => /\ \A id \in sess[s].tx.superseded :
                      /\ db_routes[id].status \in {"planned", "active"}
                      /\ db_routes'[id] = db_routes[id]
                /\ \A id \in DOMAIN sess[s].tx.new_routes :
                      /\ id \notin DOMAIN db_routes'
                      /\ \A o \in StoredOrderIds : db_orders'[o].route_id # id
      ]_vars

(* C11 witness: a cycle raised while its transaction held superseded      *)
(* routes and new routes of a depot it had already written.                *)
AbortedAfterSupersede ==
    \E s \in Sessions :
        /\ sess[s].pc = "closing"
        /\ sess[s].raised # {}
        /\ sess[s].tx.superseded # {}
        /\ sess[s].tx.new_routes # <<>>

DriverCommit(s) ==
    /\ sess[s].pc = "depots"
    /\ sess'[s].pc \in {"tenant", "closing"}
    /\ sess'[s].raised = sess[s].raised

(* C12: the commit of a reroute of tenant T, manual or by the scheduler,   *)
(* leaves every driver of T for which the LiveLocationStore held a         *)
(* position when the reroute began at that position, as a scheduler tick   *)
(* does.                                                                   *)
ManualLeavesWhatTickLeaves ==
    [][ \A s \in Sessions :
          DriverCommit(s)
             => \A d \in DriverIds :
                   (db_drivers[d].tenant_id = sess[s].tenant /\ sess[s].locations[d] # None)
                      => db_drivers'[d].current_lat = sess[s].locations[d]
      ]_vars

SkippedDepots(s) == sess[s].processed \ sess[s].reoptimized

(* C13: a depot for which the optimizer returned no routes is skipped      *)
(* without an effect: the step that skips it writes nothing to the         *)
(* session's transaction or to the tables, and the commit that follows     *)
(* leaves the depot's routes and its orders' links and statuses as stored. *)
SkippedDepotUntouched ==
    [][ \A s \in Sessions :
          /\ (sess'[s].processed \ sess[s].processed) \ sess'[s].reoptimized # {}
                => /\ sess'[s].tx = sess[s].tx
                   /\ UNCHANGED <<db_routes, db_orders>>
          /\ DriverCommit(s)
                => \A wh \in SkippedDepots(s) :
                      /\ \A id \in DOMAIN db_routes' :
                            db_routes'[id].warehouse_id = wh
                               => id \in DOMAIN db_routes /\ db_routes'[id] = db_routes[id]
                      /\ \A o \in StoredOrderIds :
                            OrderCols(o).warehouse_id = wh => db_orders'[o] = db_orders[o]
      ]_vars

(* C13 witness: a cycle that skipped a depot with orders, an active route  *)
(* and an available driver, which only an empty result does, has committed.*)
EmptyResultSkipped ==
    \E s \in Sessions : \E wh \in sess[s].committed :
        /\ InFlightAt(wh) # {}
        /\ _build_drivers_payload(db_drivers, Warehouse(wh).tenant_id, wh) # <<>>
        /\ RoutesAt(db_routes, wh, "active") = {SeedRouteId(wh)}
        /\ RoutesAt(db_routes, wh, "superseded") = {}
        /\ \A t \in Sessions : sess[t].tx = EmptyTx /\ (t # s => sess[t].committed = {})

NoOpenOrders(w) ==
    \A o \in StoredOrderIds :
        OrderCols(o).warehouse_id = w => db_orders[o].status \notin {"pending", "assigned"}

RoutesOf(routes, w) == {id \in DOMAIN routes : routes[id].warehouse_id = w}

(* C14: a depot with no pending or assigned order is not visited by a      *)
(* reroute and no step changes or adds a route of it; when no depot has    *)
(* such an order the stored routes are the same before and after the tick. *)
IdleDepotUnchanged ==
    [][ /\ \A w \in WarehouseIds :
              NoOpenOrders(w)
                 => /\ RoutesOf(db_routes', w) = RoutesOf(db_routes, w)
                    /\ \A id \in RoutesOf(db_routes, w) : db_routes'[id] = db_routes[id]
                    /\ \A s \in Sessions :
                          w \notin sess'[s].whs \cup sess'[s].processed
        /\ (\A w \in WarehouseIds : NoOpenOrders(w)) => db_routes' = db_routes
      ]_vars

(* C14 witness: a tick has committed the new route of depot w1 while the   *)
(* orders of depot w2 were all delivered and its route is active as before.*)
IdleDepotPassedOver ==
    /\ NoOpenOrders("w2")
    /\ RoutesAt(db_routes, "w2", "active") = {SeedRouteId("w2")}
    /\ "w1" \in sess["tick"].committed
    /\ \E id \in RoutesAt(db_routes, "w1", "active") : id[1] = "tick"

(* A tick ran to its end while no depot had a pending or assigned order.   *)
IdleTickDone ==
    /\ \A w \in WarehouseIds : NoOpenOrders(w)
    /\ db_routes # <<>>
    /\ sess["tick"].pc = "closing"
    /\ sess["tick"].raised = {}

StatusRank(status) ==
    IF status = "planned" THEN 1 ELSE IF status = "active" THEN 2 ELSE 3

(* C15: no step of a tick, a manual reroute or an optimize request deletes *)
(* a Route row, and a route's status never moves back: a superseded route  *)
(* stays superseded.                                                       *)
RoutesOnlyMoveForward ==
    [][ \A id \in DOMAIN db_routes :
          /\ id \in DOMAIN db_routes'
          /\ StatusRank(db_routes'[id].status) >= StatusRank(db_routes[id].status)
          /\ db_routes[id].status = "superseded" => db_routes'[id].status = "superseded"
      ]_vars

(* C15 witness: the planned route of an optimize request is stored         *)
(* superseded beside the active route of a later reroute.                  *)
SupersededBesideNewer ==
    \E w \in WarehouseIds :
        /\ \E id \in RoutesAt(db_routes, w, "superseded") : id[1] = "optimize"
        /\ \E id \in RoutesAt(db_routes, w, "active") : id[1] \in Sessions

(***************************************************************************)
(* Properties of a calculate_routes call under SpecOpt.                    *)
(***************************************************************************)
OrderOf(id) == CHOOSE o \in Range(req.orders) : o.order_id = id

RouteDemand(stops) == SumSeq([i \in DOMAIN stops |-> Demand(OrderOf(stops[i]).weight)])

(* The capacity plan_routes gives the vehicle of index v (lines 432-438). *)
VehicleCapacity(v) ==
    IF v + 1 \in DOMAIN req.drivers_data
    THEN Capacity(req.drivers_data[v + 1].vehicle_capacity)
    ELSE DefaultCapacity

RoutesWith(res, id) == {k \in DOMAIN res.routes : id \in Range(res.routes[k].route)}

(* C5: in every returned result, by whichever path, the demands of the     *)
(* stops of each route sum to at most the capacity of the route's vehicle. *)
CapacityRespected ==
    opc = "returned"
        => \A k \in DOMAIN result.routes :
              RouteDemand(result.routes[k].route) <= VehicleCapacity(result.routes[k].id)

(* C6: in every result returned for a non-empty stop set, every input stop *)
(* is on exactly one route or in the unassigned list, never in neither.    *)
EveryStopAccounted ==
    (opc = "returned" /\ req.orders # <<>>)
        => \A i \in DOMAIN req.orders :
              LET id == req.orders[i].order_id
                  n  == Cardinality(RoutesWith(result, id))
              IN  n <= 1 /\ (n = 1 \/ id \in Range(result.unassigned))

SolverFailures == {"raise", "unavailable", "nosolution"}

(* C7: in constrained-solver mode with at least one stop and one vehicle,  *)
(* a solve whose solver raised, was unavailable or found no solution does  *)
(* not raise and returns the greedy assignment of all its stops, tagged    *)
(* "greedy_fallback".                                                      *)
FallbackOnSolverFailure ==
    \A k \in DOMAIN solves :
        (/\ req.method = "ortools"
         /\ solves[k].orders # <<>>
         /\ req.drivers >= 1
         /\ solves[k].solver \in SolverFailures)
            => /\ ~solves[k].result.error
               /\ solves[k].result.method = "greedy_fallback"
               /\ \A i \in DOMAIN solves[k].orders :
                     RoutesWith(solves[k].result, solves[k].orders[i].order_id) # {}

(* C8: when the matrix provider fails and the geometric fallback is        *)
(* disabled, the call raises: no routes, no degraded result.               *)
MatrixFailurePropagates ==
    \A k \in DOMAIN solves :
        (solves[k].osrm_raised /\ ~cfg.OSRM_FALLBACK_HAVERSINE)
            => /\ solves[k].result = ErrorResult
               /\ opc = "raised"
               /\ result.error
               /\ result.routes = <<>>

(* C8 witness: a call in constrained-solver mode with road matrices        *)
(* requested has raised after the provider failed with the fallback off.   *)
MatrixFailureRaised ==
    /\ opc = "raised"
    /\ req.method = "ortools" /\ req.use_osrm /\ req.orders # <<>>
    /\ ~cfg.OSRM_FALLBACK_HAVERSINE
    /\ solves[Len(solves)].osrm_raised

(* What a solve can return once the provider has failed, and what the     *)
(* same solve can return with use_osrm false, where the provider is not    *)
(* called and its behaviour plays no part.                                 *)
FailedOsrmResults(b) ==
    UNION { _solve_single(b, cfg, env) :
              env \in {e \in Envs(cfg) : e.osrm # "ok"} }

NoOsrmResults(b) ==
    UNION { _solve_single([b EXCEPT !.use_osrm = FALSE], cfg, env) :
              env \in {e \in Envs(cfg) : e.osrm = "ok"} }

LastSolve == solves[Len(solves)]

(* C9: when the matrix provider fails and the geometric fallback is        *)
(* enabled, the solve returns what the same solve returns with use_osrm    *)
(* false: the result it returned is one of those, and the two sets of      *)
(* possible results are equal.  Stated of each solve in the state that     *)
(* follows it.                                                             *)
GeometricFallbackEquivalent ==
    (/\ opc \in {"solving", "assemble"}
     /\ solves # <<>>
     /\ LastSolve.osrm_raised
     /\ cfg.OSRM_FALLBACK_HAVERSINE)
        => LET b == [req EXCEPT !.orders = LastSolve.orders]
           IN  /\ LastSolve.result \in NoOsrmResults(b)
               /\ FailedOsrmResults(b) = NoOsrmResults(b)

(* C9 witness: a returned call whose provider failed with the fallback on  *)
(* and whose constrained solver routed at least one stop.                  *)
GeometricFallbackSolved ==
    /\ opc = "returned"
    /\ cfg.OSRM_FALLBACK_HAVERSINE
    /\ solves[1].osrm_raised
    /\ result.method = "ortools"
    /\ \E k \in DOMAIN result.routes : result.routes[k].route # <<>>

(* C10: in a returned result no two routes with stops carry the same       *)
(* vehicle index, also when the batch was split into clusters.             *)
OneRoutePerVehicle ==
    opc = "returned"
        => \A j, k \in DOMAIN result.routes :
              (j # k /\ result.routes[j].route # <<>> /\ result.routes[k].route # <<>>)
                  => result.routes[j].id # result.routes[k].id


(***************************************************************************)
(* Properties of the LiveLocationStore under SpecLive.                     *)
(***************************************************************************)
UpdatesOf(tenant_id, driver_id) ==
    {k \in DOMAIN history : history[k][1] = tenant_id /\ history[k][2] = driver_id}

(* C16: every position of a returned snapshot is the <<lat, lng, speed>>   *)
(* of one update call made for that tenant and driver, and it is still the *)
(* position the snapshot showed when it was returned, whatever updates     *)
(* were made since.                                                        *)
SnapshotsWholeAndStable ==
    \A k \in DOMAIN returned :
        \A d \in DOMAIN returned[k].entries :
            /\ \E u \in UpdatesOf(returned[k].tenant_id, d) :
                  EntryPosition(heap, returned[k].entries[d]) = history[u][3]
            /\ EntryPosition(heap, returned[k].entries[d]) = returned[k].seen[d]

(* C16 witness: a returned snapshot shows a position that an update made   *)
(* after it was returned has replaced in the store.                        *)
SnapshotOutlivedUpdate ==
    \E k \in DOMAIN returned :
        \E d \in DOMAIN returned[k].entries :
            /\ Position(Store, returned[k].tenant_id, d) # returned[k].seen[d]
            /\ EntryPosition(heap, returned[k].entries[d]) = returned[k].seen[d]

Positions(st) ==
    [t \in LiveTenants |-> [d \in LiveDrivers |-> Position(st, t, d)]]

ApplyCall(st, c) ==
    update_location(st, c[1], c[2], c[3][1], c[3][2], c[3][3], Len(st.heap) + 1)

LastUpdateOf(tenant_id, driver_id) ==
    history[CHOOSE k \in UpdatesOf(tenant_id, driver_id) :
               \A j \in UpdatesOf(tenant_id, driver_id) : j <= k]

(* C17: the store holds for every key the position of the last update made *)
(* for it and nothing for a key never updated; an update applied a second  *)
(* time leaves the positions the first left; and the step of an update     *)
(* changes the position of no other tenant or driver.                      *)
UpdateOverwritesIdempotent ==
    /\ [](\A t \in LiveTenants : \A d \in LiveDrivers :
            Position(Store, t, d) =
               IF UpdatesOf(t, d) = {} THEN NoPosition ELSE LastUpdateOf(t, d)[3])
    /\ [](\A c \in LiveCalls :
            Positions(ApplyCall(ApplyCall(Store, c), c)) = Positions(ApplyCall(Store, c)))
    /\ [][ \A t \in LiveTenants : \A d \in LiveDrivers :
             Position(Store, t, d)' # Position(Store, t, d)
                => /\ Len(history') = Len(history) + 1
                   /\ history'[Len(history')][1] = t
                   /\ history'[Len(history')][2] = d
         ]_vars

(* C17 witness: three updates were made, two of them with different       *)
(* positions for one key and one for another key.                          *)
OverwrittenBesideOther ==
    /\ Len(history) = 3
    /\ \E t \in LiveTenants : \E d \in LiveDrivers :
          /\ Cardinality({history[k][3] : k \in UpdatesOf(t, d)}) = 2
          /\ UpdatesOf(t, d) # DOMAIN history


(***************************************************************************)
(* Properties of a cluster_orders call under SpecCluster.                  *)
(***************************************************************************)
(* C18: the clusters returned for a stop list, the empty list included,    *)
(* are a complete partition: none of them is empty and every input stop    *)
(* is at exactly one place of exactly one of them.                         *)
ClustersPartition ==
    opc = "clustered"
        => /\ \A k \in DOMAIN result : result[k].orders # <<>>
           /\ \A i \in DOMAIN req.orders :
                 Cardinality({ kj \in (DOMAIN result) \X (1..Len(req.orders)) :
                                 /\ kj[2] \in DOMAIN result[kj[1]].orders
                                 /\ result[kj[1]].orders[kj[2]] = req.orders[i] }) = 1

(***************************************************************************)
(* Properties of a greedy_vrp call under SpecGreedy.                       *)
(***************************************************************************)
VisitOrders(n) ==
    {p \in [1..n -> 1..n] : \A i, j \in 1..n : p[i] = p[j] => i = j}

GreedyPriority(i) == req.preds[i] + req.distance_km[i]

GreedyCost(i) == req.distance_km[i] + req.preds[i]

(* The vehicle, by position in the result, whose route holds stop i. *)
VehicleOf(i) ==
    CHOOSE v \in DOMAIN result : req.orders[i].order_id \in Range(result[v].route)

RECURSIVE LoadBefore(_, _, _)
LoadBefore(v, p, k) ==
    IF k = 0 THEN 0
    ELSE LoadBefore(v, p, k - 1) + (IF VehicleOf(p[k]) = v THEN GreedyCost(p[k]) ELSE 0)

(* The stops of vehicle v in the order p visits them. *)
RECURSIVE RouteAlong(_, _, _)
RouteAlong(v, p, k) ==
    IF k = 0 THEN <<>>
    ELSE RouteAlong(v, p, k - 1)
            \o (IF VehicleOf(p[k]) = v THEN <<req.orders[p[k]].order_id>> ELSE <<>>)

SolveBatch(k) == [req EXCEPT !.orders = solves[k].orders]

SolveProblem(k) ==
    LET b == SolveBatch(k)
        table == IF solves[k].osrm_raised THEN OsrmRaised
                 ELSE OsrmCall(b, cfg, [osrm |-> "ok"])
        p == SolverProblem(PlanArgs(b, table))
    IN  IF InputsRejected(p) THEN SolverProblem(PlanArgs(b, OsrmRaised)) ELSE p

(* The solver nodes of a route's order ids. *)
StopNodes(k, route) ==
    LET p == SolveProblem(k)
        orders == solves[k].orders
    IN  [j \in DOMAIN route |->
            p.depot_count + (CHOOSE i \in DOMAIN orders : orders[i].order_id = route[j])]

HasWindow(o) == o.time_window_start # None /\ o.time_window_end # None

(* C20: in a result returned in constrained-solver mode every stop with a  *)
(* time window that is on a route can be reached within its window: the   *)
(* vehicle's way from its start to the stop admits arrival times within    *)
(* every window on the way, with up to 300 s of waiting per leg; a stop    *)
(* for which it does not is in the unassigned list.                        *)
WindowsRespected ==
    (opc = "returned" /\ req.method = "ortools")
        => \A k \in DOMAIN solves :
              \A v \in DOMAIN solves[k].result.routes :
                 LET route == solves[k].result.routes[v].route
                     p == SolveProblem(k)
                 IN  \A j \in DOMAIN route :
                        HasWindow(OrderOf(route[j]))
                           => RouteTimeFeasible(p,
                                 <<p.starts[v]>> \o SubSeq(StopNodes(k, route), 1, j))


(***************************************************************************)
(* Claims about empty batches and the solver tag, under SpecOpt.           *)
(***************************************************************************)
CallDone == opc \in {"returned", "raised"}

(* C21: a calculate_routes call with an empty order list returns a result  *)
(* with an empty routes list and never an error, whatever the method, the  *)
(* depot mode, the matrix provider's outcome and the fallback flag.        *)
EmptyBatchReturnsEmpty ==
    (CallDone /\ req.orders = <<>>) =>
        /\ opc = "returned"
        /\ ~result.error
        /\ result.routes = <<>>


FallbackTags == {"greedy_fallback"}

(* C22: whenever a route of the returned result was produced by the greedy *)
(* heuristic standing in for the constrained solver, the method tag of the *)
(* returned result says so, also when the batch was clustered and only     *)
(* some of the clusters fell back.                                         *)
FallbackTagged ==
    (opc = "returned" /\ \E k \in DOMAIN solves :
                            /\ solves[k].result.method \in FallbackTags
                            /\ solves[k].result.routes # <<>>)
        => result.method \in FallbackTags


(***************************************************************************)
(* DynamicRerouteScheduler: the loop of reroute_service.reroute_scheduler  *)
(* (lines 263-271) around reroute_all_tenants (lines 248-260).  The tick   *)
(* runs in a worker thread; what it raises reaches the loop at the await.  *)
(***************************************************************************)
MaxLoopTicks == 3

(* The tenant ids the tick's DISTINCT query (line 251) may return. *)
LoopTenantLists == {<<>>, <<"default">>, <<"default", "t2">>}

(* What a tick raises: a database failure, the matrix provider's failure   *)
(* propagated by _solve_single, a failed position sync.                    *)
TickErrors == {"OperationalError", "RuntimeError"}

(* A variant of the except clause that lets provider failures through. *)
CatchesDatabaseErrorsOnly(e) == e = "OperationalError"

(* "except Exception" on line 269: every error a tick raises is one. *)
CatchesException(e) == e \in TickErrors

NoError == "none"

LoopConfigs == [REROUTE_ENABLED : BOOLEAN]

InitSched ==
    /\ cfg \in LoopConfigs
    /\ sched = [pc |-> "check", started |-> 0, tenants |-> <<>>, error |-> NoError,
                session |-> "none", outcomes |-> <<>>, logged |-> 0]
    /\ req = <<>>
    /\ opc = "unused"
    /\ batches = <<>>
    /\ clustered = FALSE
    /\ solves = <<>>
    /\ result = NoResult
    /\ DbUnused
    /\ StoreUnused
    /\ SimUnused

SchedUnchanged == UNCHANGED <<cfg, optVars, dbVars, storeVars, simVars>>

(* Line 266-268: the flag is read; an enabled loop starts a tick, which    *)
(* opens its session (line 249).                                           *)
LoopCheck ==
    /\ sched.pc = "check"
    /\ sched.started < MaxLoopTicks
    /\ sched' = IF cfg.REROUTE_ENABLED
                THEN [sched EXCEPT !.pc = "query", !.started = @ + 1,
                                   !.session = "open", !.error = NoError]
                ELSE [sched EXCEPT !.pc = "sleep"]
    /\ SchedUnchanged

(* Line 251-253: the tenant query; it returns a list or raises. *)
TickQuery ==
    /\ sched.pc = "query"
    /\ \/ \E l \in LoopTenantLists :
            sched' = [sched EXCEPT !.tenants = l,
                                   !.pc = IF l = <<>> THEN "finally" ELSE "tenant"]
       \/ \E e \in TickErrors :
            sched' = [sched EXCEPT !.error = e, !.pc = "finally"]
    /\ SchedUnchanged

(* Lines 254-258: one tenant's position sync and reroute_tenant call. *)
TickReroute ==
    /\ sched.pc = "tenant"
    /\ \/ sched' = [sched EXCEPT !.tenants = Tail(@),
                                 !.pc = IF Tail(sched.tenants) = <<>>
                                        THEN "finally" ELSE "tenant"]
       \/ \E e \in TickErrors :
            sched' = [sched EXCEPT !.error = e, !.pc = "finally"]
    /\ SchedUnchanged

(* Lines 259-260: the session is closed; the call returns or re-raises to  *)
(* the await on line 268.                                                  *)
TickFinally ==
    /\ sched.pc = "finally"
    /\ sched' = [sched EXCEPT !.session = "closed", !.tenants = <<>>,
                              !.outcomes = Append(@, sched.error),
                              !.pc = IF sched.error = NoError THEN "sleep"
                                     ELSE "except"]
    /\ SchedUnchanged

(* Lines 269-270: a caught error is logged; any other ends the task. *)
LoopExcept ==
    /\ sched.pc = "except"
    /\ sched' = IF CatchesException(sched.error)
                THEN [sched EXCEPT !.pc = "sleep", !.logged = @ + 1]
                ELSE [sched EXCEPT !.pc = "dead"]
    /\ SchedUnchanged

(* Line 271: the interval passes. *)
LoopSleep ==
    /\ sched.pc = "sleep"
    /\ sched' = [sched EXCEPT !.pc = "check"]
    /\ SchedUnchanged

NextSched ==
    \/ LoopCheck
    \/ TickQuery
    \/ TickReroute
    \/ TickFinally
    \/ LoopExcept
    \/ LoopSleep

(* The event loop runs the task, the worker thread runs the tick to its    *)
(* end, and the sleep ends when the interval has passed.                   *)
SpecSched == InitSched /\ [][NextSched]_vars /\ WF_vars(NextSched)

(* The await of tick k has just completed, by return or by exception. *)
TickEnded(k) ==
    /\ sched.started = k
    /\ Len(sched.outcomes) = k
    /\ sched.pc \in {"except", "sleep"}

(* C23: while rerouting is enabled, a tick that has ended, also one that   *)
(* raised, is followed by the loop's sleep and then by the start of        *)
(* another tick; the loop task never ends.                                 *)
FailingTickNeverStopsLoop ==
    /\ [](sched.pc # "dead")
    /\ \A k \in 1..(MaxLoopTicks - 1) :
          /\ (cfg.REROUTE_ENABLED /\ TickEnded(k))
                ~> (sched.started = k /\ sched.pc = "sleep")
          /\ (cfg.REROUTE_ENABLED /\ TickEnded(k)) ~> (sched.started = k + 1)

TickAfterRaisedTick ==
    /\ cfg.REROUTE_ENABLED
    /\ Len(sched.outcomes) >= 1
    /\ sched.outcomes[1] # NoError
    /\ sched.logged >= 1
    /\ sched.started = 2


(***************************************************************************)
(* POST /orders (create_order, orders.py lines 57-69) beside the reroutes: *)
(* a new Order row of the caller's tenant is added with the column default *)
(* status "pending" and committed.                                         *)
(***************************************************************************)
ArrivingOrders ==
    {o \in StoredOrderIds : /\ OrderCols(o).tenant_id = "default"
                            /\ OrderCols(o).warehouse_id # NoWarehouse}

CreateOrder ==
    /\ \E o \in ArrivingOrders :
         /\ db_orders[o].status = "absent"
         /\ db_orders' = [db_orders EXCEPT ![o] = [status |-> "pending",
                                                   route_id |-> NoRoute]]
    /\ UNCHANGED <<db_routes, db_drivers, live, sess, ticks, manuals>>
    /\ UNCHANGED <<cfg, optVars, storeVars, extraVars>>

NextArrivals == Next \/ CreateOrder

(* The stored set followed is the one with a depot in each tenant; the     *)
(* arriving order joins a depot that already holds one.                    *)
InitArrivals ==
    /\ Init
    /\ cfg.OSRM_FALLBACK_HAVERSINE
    /\ db_orders[4].status # "absent"

SpecArrivals == InitArrivals /\ [][NextArrivals]_vars

(* The depots whose orders the call of session s has read so far. *)
DepotsRead(s) ==
    (sess[s].processed \cup sess[s].committed \cup sess[s].raised
        \cup (IF sess[s].pc = "blocked" THEN {sess[s].wh} ELSE {}))
    \cap WarehouseIds

(* The routes the current call of session s has created, pending or        *)
(* committed.                                                              *)
RoutesCreatedBy(s) ==
    LET committed == {id \in DOMAIN db_routes : id[1] = s /\ id[2] = Cycle(s)}
    IN  [id \in committed |-> db_routes[id]] @@ sess[s].tx.new_routes @@ sess[s].new

(* C24: a depot's demand is read once per cycle.  An order created after   *)
(* that read is on no route the cycle creates and is linked to none; and   *)
(* whenever a call reads a depot's demand, the rows returned include every *)
(* committed pending or assigned order of that depot.                      *)
ArrivalsWaitForNextCycle ==
    /\ [](\A s \in Sessions :
            sess[s].pc # "idle" =>
              /\ \A id \in DOMAIN RoutesCreatedBy(s) :
                    Range(RoutesCreatedBy(s)[id].points) \subseteq sess[s].orders
              /\ \A l \in sess[s].tx.links : l[1] \in sess[s].orders
              /\ \A o \in StoredOrderIds :
                    db_orders[o].route_id \in DOMAIN RoutesCreatedBy(s)
                       => o \in sess[s].orders)
    /\ [][\A s \in Sessions : \A wh \in WarehouseIds :
             (wh \in DepotsRead(s)' /\ wh \notin DepotsRead(s))
                => _select_orders_for_reroute(db_orders, sess[s].tenant, wh)
                      \subseteq sess'[s].orders]_vars

(* An order arrived at a depot after the tick's read of it, while the      *)
(* tick's new route for the depot is still pending, and a later call has   *)
(* read it.                                                                *)
ArrivedMidCycle ==
    \E o \in ArrivingOrders :
       /\ db_orders[o].status = "pending"
       /\ OrderCols(o).warehouse_id \in DepotsRead("tick")
       /\ o \notin sess["tick"].orders
       /\ \E id \in DOMAIN sess["tick"].tx.new_routes :
             sess["tick"].tx.new_routes[id].warehouse_id = OrderCols(o).warehouse_id
       /\ o \in sess["manual"].orders


(***************************************************************************)
(* Claims about the delay predictor's failure, under SpecOpt.              *)
(***************************************************************************)
(* The plan_routes arguments of the k-th solve of the call. *)
SolvePlanArgs(k) ==
    LET b == SolveBatch(k)
    IN  PlanArgs(b, IF solves[k].osrm_raised THEN OsrmRaised
                    ELSE OsrmCall(b, cfg, [osrm |-> "ok"]))

(* The returns of plan_routes for the k-th solve's arguments when the      *)
(* predictor answers a delay of zero for every order.                      *)
ZeroDelayResults(k) ==
    UNION { plan_routes(SolvePlanArgs(k),
                        [osrm |-> "ok", solver |-> sb, predictor |-> "zero",
                         ortools_available |-> cfg.ortools_available]) :
            sb \in SolverBehaviours }

ReachedPlanner(k) == ~(solves[k].osrm_raised /\ ~OsrmRecovered(cfg))

(* C25: when the delay predictor raises for a batch, plan_routes still     *)
(* returns a result, and the result is one plan_routes returns for the     *)
(* same batch when every predicted delay is zero.                          *)
PredictorFailureMeansZeroDelay ==
    \A k \in DOMAIN solves :
       (cfg.predictor = "raise" /\ req.use_ml /\ ReachedPlanner(k))
          => /\ ~solves[k].result.error
             /\ solves[k].result \in ZeroDelayResults(k)

PredictorRaisedForSharedBatch ==
    /\ opc = "returned"
    /\ cfg.predictor = "raise"
    /\ req.use_ml
    /\ \E k \in DOMAIN solves :
          /\ solves[k].result.method \in {"greedy", "greedy_fallback"}
          /\ Len(solves[k].orders) >= 2
          /\ \E v \in DOMAIN solves[k].result.routes :
                solves[k].result.routes[v].load > 0


(***************************************************************************)
(* Live tracking simulator (src/api/live_tracking.py).  The endpoints are  *)
(* plain "def" handlers, each run by a worker thread; SIM_LOCK is a        *)
(* threading.Lock, which is not reentrant: an acquire waits until the lock *)
(* is free, whoever holds it.  A route is kept as its number of waypoints, *)
(* progress in quarter steps, a history as the list of record stamps.      *)
(***************************************************************************)
MaxSimCalls == 3

SimWorkers == {"t1", "t2"}

(* Values of the drivers query parameter. *)
SimDriverCounts == {1, 2}

(* Bodies of POST /live_tracking/routes: driver id -> waypoints. *)
SimRouteBodies == {<<>>, [d \in {0} |-> 2], [d \in {0, 1} |-> 1]}

(* ROUTE_POINTS (line 33) is 6; the routes of the model are shorter. *)
RoutePoints == 2

(* HISTORY_LEN (line 31) is 50; the histories of the model are shorter. *)
HistoryLen == 2

Frame(fn, pc) == [fn |-> fn, pc |-> pc]

(* routes holds the request body of assign_routes, then the response body. *)
IdleWorker == [stack |-> <<>>, drivers |-> 0, routes |-> <<>>]

SimCalls == Len(responses) + Cardinality({w \in SimWorkers : workers[w].stack # <<>>})

InitSim ==
    /\ SIM_LOCK = NoThread
    /\ driver_routes = <<>>
    /\ driver_progress = <<>>
    /\ driver_history = <<>>
    /\ workers = [w \in SimWorkers |-> IdleWorker]
    /\ responses = <<>>
    /\ cfg = <<>>
    /\ req = <<>>
    /\ opc = "unused"
    /\ batches = <<>>
    /\ clustered = FALSE
    /\ solves = <<>>
    /\ result = NoResult
    /\ DbUnused
    /\ StoreUnused
    /\ LoopUnused

SimUnchanged == UNCHANGED <<cfg, optVars, dbVars, storeVars, sched>>

Top(w) == workers[w].stack[Len(workers[w].stack)]

(* The stack of w with the top frame at pc. *)
At(w, pc) == [workers[w].stack EXCEPT ![Len(workers[w].stack)].pc = pc]

Push(w, pc, fn) == Append(At(w, pc), Frame(fn, "acquire"))

(* A request arrives: live_tracking, assign_routes or live_history is      *)
(* called and reaches its "with SIM_LOCK".                                 *)
SimRequest(w) ==
    /\ workers[w].stack = <<>>
    /\ SimCalls < MaxSimCalls
    /\ \/ \E n \in SimDriverCounts :
            workers' = [workers EXCEPT ![w] =
               [IdleWorker EXCEPT !.stack = <<Frame("live_tracking", "acquire")>>,
                                  !.drivers = n]]
       \/ \E body \in SimRouteBodies :
            workers' = [workers EXCEPT ![w] =
               [IdleWorker EXCEPT !.stack = <<Frame("assign_routes", "acquire")>>,
                                  !.routes = body]]
       \/ workers' = [workers EXCEPT ![w] =
               [IdleWorker EXCEPT !.stack = <<Frame("live_history", "acquire")>>]]
    /\ UNCHANGED <<SIM_LOCK, driver_routes, driver_progress, driver_history, responses>>
    /\ SimUnchanged

(* "with SIM_LOCK:" entered: Lock.acquire returns once the lock is free. *)
SimAcquire(w) ==
    /\ workers[w].stack # <<>>
    /\ Top(w).pc = "acquire"
    /\ SIM_LOCK = NoThread
    /\ SIM_LOCK' = w
    /\ workers' = [workers EXCEPT ![w].stack = At(w, "body")]
    /\ UNCHANGED <<driver_routes, driver_progress, driver_history, responses>>
    /\ SimUnchanged

(* _advance_drivers lines 78-105 for every driver with a route. *)
Advanced(d) ==
    LET prog == (driver_progress[d] + 1) % (4 * driver_routes[d])
    IN  [progress |-> prog,
         history |-> LET hist == Append(driver_history[d], prog)
                     IN  IF Len(hist) > HistoryLen THEN Tail(hist) ELSE hist]

(* The driver_list of live_tracking lines 174-185. *)
DriverList ==
    LET ids == AscendingSeq({d \in DOMAIN driver_routes : driver_history[d] # <<>>})
    IN  [i \in DOMAIN ids |->
            [driver_id |-> ids[i],
             position |-> driver_history[ids[i]][Len(driver_history[ids[i]])]]]

(* The block under the lock, up to the next call or to its end. *)
SimBody(w) ==
    /\ workers[w].stack # <<>>
    /\ Top(w).pc \in {"body", "advance", "collect"}
    /\ LET fn == Top(w).fn
           pc == Top(w).pc
       IN  CASE fn = "live_tracking" /\ pc = "body" ->
                   (* lines 168-169 *)
                   /\ workers' = [workers EXCEPT ![w].stack =
                         IF driver_routes = <<>>
                            \/ Cardinality(DOMAIN driver_routes) # workers[w].drivers
                         THEN Push(w, "advance", "_init_default_routes")
                         ELSE At(w, "advance")]
                   /\ UNCHANGED <<driver_routes, driver_progress, driver_history>>
              [] fn = "live_tracking" /\ pc = "advance" ->
                   (* line 172 *)
                   /\ workers' = [workers EXCEPT ![w].stack =
                                     Push(w, "collect", "_advance_drivers")]
                   /\ UNCHANGED <<driver_routes, driver_progress, driver_history>>
              [] fn = "live_tracking" /\ pc = "collect" ->
                   (* lines 174-185 *)
                   /\ workers' = [workers EXCEPT ![w].stack = At(w, "release"),
                                                 ![w].routes = DriverList]
                   /\ UNCHANGED <<driver_routes, driver_progress, driver_history>>
              [] fn = "_init_default_routes" ->
                   (* lines 48-63 *)
                   /\ driver_routes' = [d \in 0..(workers[w].drivers - 1) |-> RoutePoints]
                   /\ driver_progress' = [d \in 0..(workers[w].drivers - 1) |-> 0]
                   /\ driver_history' = [d \in 0..(workers[w].drivers - 1) |-> <<>>]
                   /\ workers' = [workers EXCEPT ![w].stack = At(w, "release")]
              [] fn = "_advance_drivers" ->
                   (* lines 78-105 *)
                   /\ driver_progress' = [d \in DOMAIN driver_routes |->
                                             Advanced(d).progress]
                   /\ driver_history' = [d \in DOMAIN driver_routes |->
                                            Advanced(d).history]
                   /\ workers' = [workers EXCEPT ![w].stack = At(w, "release")]
                   /\ UNCHANGED driver_routes
              [] fn = "assign_routes" ->
                   (* lines 122-152 *)
                   /\ IF workers[w].routes = <<>>
                      THEN UNCHANGED <<driver_routes, driver_progress, driver_history>>
                      ELSE /\ driver_routes' = workers[w].routes
                           /\ driver_progress' = [d \in DOMAIN workers[w].routes |-> 0]
                           /\ driver_history' = [d \in DOMAIN workers[w].routes |-> <<>>]
                   /\ workers' = [workers EXCEPT ![w].stack = At(w, "release")]
              [] fn = "live_history" ->
                   (* lines 201-206 *)
                   /\ workers' = [workers EXCEPT ![w].stack = At(w, "release"),
                                                 ![w].routes = driver_history]
                   /\ UNCHANGED <<driver_routes, driver_progress, driver_history>>
    /\ UNCHANGED <<SIM_LOCK, responses>>
    /\ SimUnchanged

(* The end of a "with SIM_LOCK:" block: Lock.release, then the function    *)
(* returns, to its caller or with the response.                            *)
SimRelease(w) ==
    /\ workers[w].stack # <<>>
    /\ Top(w).pc = "release"
    /\ SIM_LOCK' = NoThread
    /\ IF Len(workers[w].stack) = 1
       THEN /\ responses' = Append(responses,
                               [fn |-> Top(w).fn, worker |-> w, body |-> workers[w].routes])
            /\ workers' = [workers EXCEPT ![w] = IdleWorker]
       ELSE /\ workers' = [workers EXCEPT ![w].stack =
                              SubSeq(workers[w].stack, 1, Len(workers[w].stack) - 1)]
            /\ UNCHANGED responses
    /\ UNCHANGED <<driver_routes, driver_progress, driver_history>>
    /\ SimUnchanged

NextSim ==
    \/ \E w \in SimWorkers : SimRequest(w)
    \/ \E w \in SimWorkers : SimAcquire(w)
    \/ \E w \in SimWorkers : SimBody(w)
    \/ \E w \in SimWorkers : SimRelease(w)

(* Every worker thread is scheduled: a step it can take is taken. *)
SpecSim ==
    /\ InitSim
    /\ [][NextSim]_vars
    /\ \A w \in SimWorkers :
          WF_vars(SimAcquire(w)) /\ WF_vars(SimBody(w)) /\ WF_vars(SimRelease(w))

InLiveTracking(w) ==
    workers[w].stack # <<>> /\ workers[w].stack[1].fn = "live_tracking"

(* C26: every GET /live_tracking request terminates with its response; no  *)
(* request waits forever for SIM_LOCK, the first request and a request     *)
(* with a changed driver count included.                                   *)
LiveTrackingTerminates ==
    \A w \in SimWorkers : InLiveTracking(w) ~> (workers[w].stack = <<>>)


(***************************************************************************)
(* Claims about order links and the legacy batch, under Spec.              *)
(***************************************************************************)
(* C27: in every committed state, an order with status assigned is linked  *)
(* to a route that is not superseded; an order of the previous plan that   *)
(* the new plan leaves out does not stay assigned on a superseded route.   *)
AssignedOrdersOnLiveRoutes ==
    \A o \in StoredOrderIds :
       db_orders[o].status = "assigned"
          => /\ db_orders[o].route_id \in DOMAIN db_routes
             /\ db_routes[db_orders[o].route_id].status # "superseded"


(* The in-flight orders of a tenant that have no depot. *)
LegacyOrders(tenant_id) ==
    {o \in _select_orders_for_reroute(db_orders, tenant_id, NoWarehouse) :
        OrderCols(o).warehouse_id = NoWarehouse}

(* Session s ends reroute_tenant in this step, with a legacy batch. *)
EndsTenantWithLegacy(s) ==
    /\ sess[s].pc = "depots"
    /\ sess[s].whs = {}
    /\ sess'[s].pc # "depots"
    /\ LegacyOrders(sess[s].tenant) # {}

(* C28: processing the legacy batch changes no stored route and no stored  *)
(* order: the step that ends reroute_tenant stores only what the depots'   *)
(* reoptimizations left pending; it adds no route for the legacy orders,   *)
(* supersedes no route on their account, and leaves their rows as they     *)
(* were.                                                                   *)
LegacyBatchKeepsStore ==
    [][\A s \in Sessions :
          EndsTenantWithLegacy(s) =>
             /\ DOMAIN db_routes' \ DOMAIN db_routes \subseteq DOMAIN sess[s].tx.new_routes
             /\ \A id \in DOMAIN db_routes :
                   db_routes'[id] # db_routes[id] => id \in sess[s].tx.superseded
             /\ \A id \in DOMAIN db_routes' :
                   /\ db_routes'[id].warehouse_id # NoWarehouse
                   /\ Range(db_routes'[id].points) \cap LegacyOrders(sess[s].tenant) = {}
             /\ \A o \in StoredOrderIds :
                   db_orders'[o] # db_orders[o] => \E l \in sess[s].tx.links : l[1] = o
             /\ \A o \in LegacyOrders(sess[s].tenant) : db_orders'[o] = db_orders[o]
             /\ (sess[s].tx.new_routes = <<>> /\ sess[s].tx.superseded = {})
                   => (db_routes' = db_routes /\ db_orders' = db_orders)]_vars

(* The tick has committed tenant "default", whose legacy order was         *)
(* optimised with the tenant's drivers, together with a depot's new route. *)
LegacyBatchProcessed ==
    /\ sess["tick"].pc \in {"tenant", "closing"}
    /\ "default" \notin sess["tick"].tenants
    /\ sess["tick"].raised = {}
    /\ sess["tick"].committed # {}
    /\ db_orders[5].status = "pending"
    /\ _build_drivers_payload(db_drivers, "default", NoWarehouse) # <<>>
    /\ \E id \in DOMAIN db_routes : id[1] = "tick"


(***************************************************************************)
(* Claims about the matrix request's points, under SpecOpt.                *)
(***************************************************************************)
(* The node list plan_routes builds for the k-th solve (lines 392-413). *)
SolverPoints(k) ==
    LET b == SolveBatch(k)
    IN  DepotPoints(b.orders, b.drivers_data, b.warehouse_coords) \o OrderPoints(b.orders)

(* The k-th solve got a table from the provider and built solver nodes. *)
TableHandedToSolver(k) ==
    /\ req.method = "ortools"
    /\ req.use_osrm
    /\ ~solves[k].osrm_raised
    /\ solves[k].solver \notin {"unused", "unavailable"}

(* C29: whenever the matrix provider succeeds, the points of the matrix    *)
(* request are the solver's nodes, same length and same order, in every    *)
(* depot mode, also with per-vehicle depots and a vehicle without a known  *)
(* position.                                                               *)
MatrixIndexedBySolverNodes ==
    \A k \in DOMAIN solves :
       TableHandedToSolver(k)
          => LET b == SolveBatch(k)
             IN  _build_points(b.orders, b.drivers_data, b.warehouse_coords)
                    = SolverPoints(k)


(***************************************************************************)
(* Claims about the vehicles of inserted routes, under SpecOpt: the        *)
(* insert loop of _reroute_warehouse applied to the result of the call it  *)
(* makes.                                                                  *)
(***************************************************************************)
(* The call is one _reroute_warehouse makes (lines 137-147). *)
DepotRerouteCall ==
    /\ req.method = "ortools"
    /\ req.use_ml
    /\ req.use_osrm
    /\ req.enable_clustering
    /\ req.warehouse_coords # None
    /\ req.drivers_data # <<>>
    /\ req.drivers = Len(req.drivers_data)

(* The Route rows the insert loop adds for the returned result. *)
InsertedRoutes == NewRoutes("tick", 1, "default", "w1", result, req.drivers_data)

(* C30: every route a depot reoptimization inserts is bound to a vehicle   *)
(* of the depot's payload, none to a null driver, and two routes inserted  *)
(* in the same cycle are bound to different vehicles, also when the result *)
(* was assembled from several clusters.                                    *)
InsertedRoutesHaveOwnVehicle ==
    (opc = "returned" /\ DepotRerouteCall)
        => /\ \A id \in DOMAIN InsertedRoutes :
                 \E i \in DOMAIN req.drivers_data :
                    InsertedRoutes[id].driver_id = req.drivers_data[i].driver_id
           /\ \A id1, id2 \in DOMAIN InsertedRoutes :
                 id1 # id2 => InsertedRoutes[id1].driver_id # InsertedRoutes[id2].driver_id

====
